---- MODULE Spec2Model ----
(***************************************************************************)
(* Gorogoro shogi (5x6): the position model, the legality oracle and the   *)
(* engines built on them, as state machines over the Go sources.           *)
(***************************************************************************)
EXTENDS Integers, Sequences, FiniteSets, TLC

(***************************************************************************)
(* Position model: game.go                                                 *)
(***************************************************************************)
BoardRows == 6
BoardCols == 5

Bottom == 0
Top == 1
Players == {Bottom, Top}

King == 0
Gold == 1
Silver == 2
Pawn == 3
PieceTypes == {King, Gold, Silver, Pawn}

Rows == 0 .. (BoardRows - 1)
Cols == 0 .. (BoardCols - 1)

Opponent(p) == IF p = Bottom THEN Top ELSE Bottom

\* Piece{}: the zero value of the Go struct, the content of an empty cell.
NoPiece == [Kind |-> King, Owner |-> Bottom, Promoted |-> FALSE, Present |-> FALSE]

MkPiece(kind, owner) == [Kind |-> kind, Owner |-> owner, Promoted |-> FALSE, Present |-> TRUE]

MkPromoted(kind, owner) == [Kind |-> kind, Owner |-> owner, Promoted |-> TRUE, Present |-> TRUE]

Coord(x, y) == [X |-> x, Y |-> y]

\* The cells of the board.
Cells == {Coord(x, y) : x \in Cols, y \in Rows}

\* A Go map[PieceType]int: a function whose domain is the set of keys present.
EmptyHand == [k \in {} |-> 0]

\* m[k] of a Go map: the zero value when the key is absent.
HandGet(h, k) == IF k \in DOMAIN h THEN h[k] ELSE 0

\* m[k] = d: the count is replaced.
HandAddOverwrites(h, k, d) == (k :> d) @@ h

\* m[k] += d of a Go map: the key is created when absent.
HandAdd(h, k, d) == (k :> (HandGet(h, k) + d)) @@ h

\* Move{From: &from, To: to, Promote: promote}
BoardMove(from, to, promote) == [HasFrom |-> TRUE, From |-> from, To |-> to, HasDrop |-> FALSE, Drop |-> King, Promote |-> promote]

\* Move{Drop: &kind, To: to}
DropMove(kind, to) == [HasFrom |-> FALSE, From |-> Coord(0, 0), To |-> to, HasDrop |-> TRUE, Drop |-> kind, Promote |-> FALSE]

\* Move{}: what the engines return beside an error.
ZeroMove == [HasFrom |-> FALSE, From |-> Coord(0, 0), To |-> Coord(0, 0), HasDrop |-> FALSE, Drop |-> King, Promote |-> FALSE]

EmptyBoard == [y \in Rows |-> [x \in Cols |-> NoPiece]]

\* newEmptyState of the tests.
newEmptyState(turn) == [Board |-> EmptyBoard, Hands |-> [p \in Players |-> EmptyHand], Turn |-> turn]

Place(state, x, y, piece) == [state EXCEPT !.Board[y][x] = piece]

GiveHand(state, player, kind, n) == [state EXCEPT !.Hands[player] = HandAdd(@, kind, n)]

placeMajor(board, y, owner) == [board EXCEPT ![y] = [x \in Cols |-> IF x \in {0, 4} THEN MkPiece(Silver, owner) ELSE IF x \in {1, 3} THEN MkPiece(Gold, owner) ELSE MkPiece(King, owner)]]

placePawns(board, y, owner) == [board EXCEPT ![y] = [x \in Cols |-> IF x \in {1, 2, 3} THEN MkPiece(Pawn, owner) ELSE board[y][x]]]

NewGame == [Board |-> placeMajor(placePawns(placePawns(placeMajor(EmptyBoard, 0, Bottom), 2, Bottom), 3, Top), 5, Top), Hands |-> [p \in Players |-> EmptyHand], Turn |-> Bottom]

CloneState(state) == [Board |-> state.Board, Hands |-> [p \in Players |-> [k \in DOMAIN state.Hands[p] |-> state.Hands[p][k]]], Turn |-> state.Turn]

insideBoard(c) == c.X >= 0 /\ c.X < BoardCols /\ c.Y >= 0 /\ c.Y < BoardRows

kingOffsets == <<Coord(-1, -1), Coord(0, -1), Coord(1, -1), Coord(-1, 0), Coord(1, 0), Coord(-1, 1), Coord(0, 1), Coord(1, 1)>>

goldOffsetsBottom == <<Coord(-1, 1), Coord(0, 1), Coord(1, 1), Coord(-1, 0), Coord(1, 0), Coord(0, -1)>>

goldOffsetsTop == <<Coord(-1, -1), Coord(0, -1), Coord(1, -1), Coord(-1, 0), Coord(1, 0), Coord(0, 1)>>

silverOffsetsBottom == <<Coord(-1, 1), Coord(0, 1), Coord(1, 1), Coord(-1, -1), Coord(1, -1)>>

silverOffsetsTop == <<Coord(-1, -1), Coord(0, -1), Coord(1, -1), Coord(-1, 1), Coord(1, 1)>>

pawnOffsetsBottom == <<Coord(0, 1)>>

pawnOffsetsTop == <<Coord(0, -1)>>

movementOffsets(p) ==
  IF p.Kind = King THEN kingOffsets
  ELSE IF p.Kind = Gold \/ p.Promoted THEN (IF p.Owner = Bottom THEN goldOffsetsBottom ELSE goldOffsetsTop)
  ELSE IF p.Kind = Silver THEN (IF p.Owner = Bottom THEN silverOffsetsBottom ELSE silverOffsetsTop)
  ELSE IF p.Kind = Pawn THEN (IF p.Owner = Bottom THEN pawnOffsetsBottom ELSE pawnOffsetsTop)
  ELSE <<>>

promotionZoneFor(player) == IF player = Bottom THEN (BoardRows - 2) .. (BoardRows - 1) ELSE 0 .. 1

canPromote(p, destY) ==
  IF p.Promoted THEN FALSE
  ELSE IF p.Kind # Silver /\ p.Kind # Pawn THEN FALSE
  ELSE destY \in promotionZoneFor(p.Owner)

\* ApplyMove with fromPiece.Promoted = move.Promote: a promoted piece that
\* moves without promoting is turned back.
ApplyMoveUnpromotes(state, move) ==
  LET player == state.Turn IN
  IF move.HasDrop
  THEN [state EXCEPT !.Hands[player] = HandAdd(@, move.Drop, -1),
                     !.Board[move.To.Y][move.To.X] = MkPiece(move.Drop, player)]
  ELSE LET fromPiece == state.Board[move.From.Y][move.From.X]
           target == state.Board[move.To.Y][move.To.X]
           hands == IF target.Present THEN [state.Hands EXCEPT ![player] = HandAdd(@, target.Kind, 1)] ELSE state.Hands
           moved == [fromPiece EXCEPT !.Promoted = move.Promote, !.Present = TRUE]
       IN [state EXCEPT !.Hands = hands,
                        !.Board[move.From.Y][move.From.X] = NoPiece,
                        !.Board[move.To.Y][move.To.X] = moved]

\* ApplyMove: the mover is state.Turn; the caller flips the side to move.
ApplyMove(state, move) ==
  LET player == state.Turn IN
  IF move.HasDrop
  THEN [state EXCEPT !.Hands[player] = HandAdd(@, move.Drop, -1),
                     !.Board[move.To.Y][move.To.X] = MkPiece(move.Drop, player)]
  ELSE LET fromPiece == state.Board[move.From.Y][move.From.X]
           target == state.Board[move.To.Y][move.To.X]
           hands == IF target.Present THEN [state.Hands EXCEPT ![player] = HandAdd(@, target.Kind, 1)] ELSE state.Hands
           moved == [fromPiece EXCEPT !.Promoted = IF move.Promote THEN TRUE ELSE @, !.Present = TRUE]
       IN [state EXCEPT !.Hands = hands,
                        !.Board[move.From.Y][move.From.X] = NoPiece,
                        !.Board[move.To.Y][move.To.X] = moved]

\* moveDiff{}: the zero diff that applyMoveInPlace fills in.
NoHandDelta == [player |-> Bottom, piece |-> King, delta |-> 0]

\* applyMoveInPlace: the mutated state and the diff for undoMove.
applyMoveInPlace(state, move, player) ==
  LET toBefore == state.Board[move.To.Y][move.To.X]
      diff0 == [hasFrom |-> FALSE, from |-> Coord(0, 0), fromBefore |-> NoPiece, to |-> move.To, toBefore |-> toBefore, handChange |-> NoHandDelta, hasHand |-> FALSE]
  IN IF move.HasDrop
     THEN [state |-> [state EXCEPT !.Hands[player] = HandAdd(@, move.Drop, -1),
                                   !.Board[move.To.Y][move.To.X] = MkPiece(move.Drop, player)],
           diff |-> [diff0 EXCEPT !.handChange = [player |-> player, piece |-> move.Drop, delta |-> -1], !.hasHand = TRUE]]
     ELSE IF ~move.HasFrom
     THEN [state |-> state, diff |-> diff0]
     ELSE LET from == move.From
              fromBefore == state.Board[from.Y][from.X]
              movingPiece == [fromBefore EXCEPT !.Promoted = IF move.Promote THEN TRUE ELSE @, !.Present = TRUE]
              hands == IF toBefore.Present THEN [state.Hands EXCEPT ![player] = HandAdd(@, toBefore.Kind, 1)] ELSE state.Hands
          IN [state |-> [state EXCEPT !.Hands = hands,
                                      !.Board[from.Y][from.X] = NoPiece,
                                      !.Board[move.To.Y][move.To.X] = movingPiece],
              diff |-> [diff0 EXCEPT !.hasFrom = TRUE, !.from = from, !.fromBefore = fromBefore,
                                     !.handChange = IF toBefore.Present THEN [player |-> player, piece |-> toBefore.Kind, delta |-> 1] ELSE NoHandDelta,
                                     !.hasHand = toBefore.Present]]

\* undoMove that puts the board cells back and leaves the hands.
undoMoveBoardOnly(state, diff) ==
  LET b1 == [state.Board EXCEPT ![diff.to.Y][diff.to.X] = diff.toBefore]
  IN [state EXCEPT !.Board = IF diff.hasFrom THEN [b1 EXCEPT ![diff.from.Y][diff.from.X] = diff.fromBefore] ELSE b1]

undoMove(state, diff) ==
  LET b1 == [state.Board EXCEPT ![diff.to.Y][diff.to.X] = diff.toBefore]
      b2 == IF diff.hasFrom THEN [b1 EXCEPT ![diff.from.Y][diff.from.X] = diff.fromBefore] ELSE b1
      h == IF diff.hasHand
           THEN [state.Hands EXCEPT ![diff.handChange.player] = HandAdd(@, diff.handChange.piece, -diff.handChange.delta)]
           ELSE state.Hands
  IN [state EXCEPT !.Board = b2, !.Hands = h]

(***************************************************************************)
(* Legality oracle: game.go                                                *)
(***************************************************************************)
CellIndex(x, y) == y * BoardCols + x

CellAt(i) == Coord(i % BoardCols, i \div BoardCols)

NumCells == BoardRows * BoardCols

\* findKing: the first King of the player in row-major order.
findKing(state, player) ==
  LET ks == {i \in 0 .. (NumCells - 1) : LET p == state.Board[i \div BoardCols][i % BoardCols] IN p.Present /\ p.Owner = player /\ p.Kind = King}
  IN IF ks = {} THEN [pos |-> Coord(0, 0), found |-> FALSE]
     ELSE [pos |-> CellAt(CHOOSE i \in ks : \A j \in ks : i <= j), found |-> TRUE]

SeqToSet(s) == {s[i] : i \in 1 .. Len(s)}

\* game.go 581-588: some offset of the piece on (x, y) leads to kingPos.
reachesKing(offsets, x, y, kingPos) ==
  \E i \in 1 .. Len(offsets) :
    /\ x + offsets[i].X = kingPos.X
    /\ y + offsets[i].Y = kingPos.Y
    /\ insideBoard(Coord(x + offsets[i].X, y + offsets[i].Y))

\* game.go 576-588: the piece p on (x, y) is an opposing piece that attacks kingPos.
threatFrom(p, x, y, opponent, kingPos) ==
  p.Present /\ p.Owner = opponent /\ reachesKing(movementOffsets(p), x, y, kingPos)

isKingThreatened(board, player, kingPos) ==
  \E y \in Rows, x \in Cols : threatFrom(board[y][x], x, y, Opponent(player), kingPos)

inCheckAt(state, player, k) == IF ~k.found THEN FALSE ELSE isKingThreatened(state.Board, player, k.pos)

InCheck(state, player) == inCheckAt(state, player, findKing(state, player))

kingPositionAfterDiff(player, diff, kingPos, kingFound) ==
  IF diff.hasFrom /\ diff.fromBefore.Owner = player /\ diff.fromBefore.Kind = King
  THEN [pos |-> diff.to, found |-> TRUE]
  ELSE [pos |-> kingPos, found |-> kingFound]

\* The test that lets the mover stay in check.
playerInCheckNever(state, player, diff, kingPos, kingFound) == FALSE

playerInCheckAfterAppliedMove(state, player, diff, kingPos, kingFound) ==
  inCheckAt(state, player, kingPositionAfterDiff(player, diff, kingPos, kingFound))

reachesBoard(offsets, at) == \E i \in 1 .. Len(offsets) : insideBoard(Coord(at.X + offsets[i].X, at.Y + offsets[i].Y))

\* The test that lets every piece stay where it is put.
pieceHasBoardReachAlways(piece, at) == piece.Present

pieceHasBoardReach(piece, at) ==
  IF ~piece.Present THEN FALSE
  ELSE reachesBoard(movementOffsets(piece), at)

\* columnHasUnpromotedPawn without the test of the Promoted flag.
columnHasAnyOwnPawn(state, player, column) ==
  \E y \in Rows :
    /\ state.Board[y][column].Present
    /\ state.Board[y][column].Owner = player
    /\ state.Board[y][column].Kind = Pawn

columnHasUnpromotedPawn(state, player, column) ==
  \E y \in Rows :
    /\ state.Board[y][column].Present
    /\ state.Board[y][column].Owner = player
    /\ state.Board[y][column].Kind = Pawn
    /\ ~state.Board[y][column].Promoted

\* game.go 409-412 and 434-437 on the applied move r = [state, diff]: the
\* check test, the reach test, the append, and the undo.
keepOrDrop(moves, testMove, r, player, kingPos, kingFound) ==
  [state |-> undoMove(r.state, r.diff),
   moves |-> IF /\ ~playerInCheckAfterAppliedMove(r.state, player, r.diff, kingPos, kingFound)
                /\ pieceHasBoardReach(r.state.Board[testMove.To.Y][testMove.To.X], testMove.To)
             THEN Append(moves, testMove) ELSE moves]

\* The loops below are the for loops of the code over the indices lo .. hi,
\* run as the first half of the range followed by the second half.  The
\* accumulator [state, moves] that the first half leaves is bound as the
\* member of a one-element set, so that it is computed once, before the
\* second half starts.

\* The body of the candidate loops (game.go 407-413 and 432-438): apply in
\* place, test, keep or drop the move, undo.  acc = [state, moves].
tryCandidate(acc, testMove, player, kingPos, kingFound) ==
  keepOrDrop(acc.moves, testMove, applyMoveInPlace(acc.state, testMove, player), player, kingPos, kingFound)

\* game.go 411-413: the promoting twin of a board move.
tryPromotion(acc, from, to, piece, kingPos, kingFound) ==
  IF canPromote(piece, to.Y)
  THEN tryCandidate(acc, BoardMove(from, to, TRUE), piece.Owner, kingPos, kingFound)
  ELSE acc

\* The step that tries the promoting move alone where the piece can promote.
pieceOffsetStepForced(acc, from, to, piece, kingPos, kingFound) ==
  IF ~insideBoard(to) THEN acc
  ELSE IF acc.state.Board[to.Y][to.X].Present /\ acc.state.Board[to.Y][to.X].Owner = piece.Owner THEN acc
  ELSE IF canPromote(piece, to.Y) THEN tryCandidate(acc, BoardMove(from, to, TRUE), piece.Owner, kingPos, kingFound)
  ELSE tryCandidate(acc, BoardMove(from, to, FALSE), piece.Owner, kingPos, kingFound)

\* game.go 396-414: one offset of the piece.
pieceOffsetStep(acc, from, to, piece, kingPos, kingFound) ==
  IF ~insideBoard(to) THEN acc
  ELSE IF acc.state.Board[to.Y][to.X].Present /\ acc.state.Board[to.Y][to.X].Owner = piece.Owner THEN acc
  ELSE tryPromotion(tryCandidate(acc, BoardMove(from, to, FALSE), piece.Owner, kingPos, kingFound),
                    from, to, piece, kingPos, kingFound)

RECURSIVE pieceOffsetLoop(_, _, _, _, _, _, _, _)
pieceOffsetLoop(acc, from, piece, offsets, kingPos, kingFound, lo, hi) ==
  IF lo > hi THEN acc
  ELSE IF lo = hi THEN pieceOffsetStep(acc, from, Coord(from.X + offsets[lo].X, from.Y + offsets[lo].Y), piece, kingPos, kingFound)
  ELSE CHOOSE r \in {pieceOffsetLoop(first, from, piece, offsets, kingPos, kingFound, (lo + hi) \div 2 + 1, hi) :
                       first \in {pieceOffsetLoop(acc, from, piece, offsets, kingPos, kingFound, lo, (lo + hi) \div 2)}} : TRUE

appendLegalMovesForPiece(state, from, piece, kingPos, kingFound, moves) ==
  pieceOffsetLoop([state |-> state, moves |-> moves], from, piece, movementOffsets(piece), kingPos, kingFound, 1, Len(movementOffsets(piece)))

\* game.go 424-439: one cell of the board.
dropCellStep(acc, player, pieceKind, blockedColumns, kingPos, kingFound, c) ==
  IF acc.state.Board[c.Y][c.X].Present \/ blockedColumns[c.X] THEN acc
  ELSE tryCandidate(acc, DropMove(pieceKind, c), player, kingPos, kingFound)

RECURSIVE dropCellLoop(_, _, _, _, _, _, _, _)
dropCellLoop(acc, player, pieceKind, blockedColumns, kingPos, kingFound, lo, hi) ==
  IF lo > hi THEN acc
  ELSE IF lo = hi THEN dropCellStep(acc, player, pieceKind, blockedColumns, kingPos, kingFound, CellAt(lo))
  ELSE CHOOSE r \in {dropCellLoop(first, player, pieceKind, blockedColumns, kingPos, kingFound, (lo + hi) \div 2 + 1, hi) :
                       first \in {dropCellLoop(acc, player, pieceKind, blockedColumns, kingPos, kingFound, lo, (lo + hi) \div 2)}} : TRUE

appendLegalDrops(state, player, pieceKind, kingPos, kingFound, moves) ==
  dropCellLoop([state |-> state, moves |-> moves], player, pieceKind,
               [x \in Cols |-> pieceKind = Pawn /\ columnHasUnpromotedPawn(state, player, x)],
               kingPos, kingFound, 0, NumCells - 1)

\* game.go 353-359: one cell of the board.
boardStep(acc, player, kingPos, kingFound, c) ==
  IF ~acc.state.Board[c.Y][c.X].Present \/ acc.state.Board[c.Y][c.X].Owner # player THEN acc
  ELSE appendLegalMovesForPiece(acc.state, c, acc.state.Board[c.Y][c.X], kingPos, kingFound, acc.moves)

RECURSIVE boardLoop(_, _, _, _, _, _)
boardLoop(acc, player, kingPos, kingFound, lo, hi) ==
  IF lo > hi THEN acc
  ELSE IF lo = hi THEN boardStep(acc, player, kingPos, kingFound, CellAt(lo))
  ELSE CHOOSE r \in {boardLoop(first, player, kingPos, kingFound, (lo + hi) \div 2 + 1, hi) :
                       first \in {boardLoop(acc, player, kingPos, kingFound, lo, (lo + hi) \div 2)}} : TRUE

RECURSIVE dropKindLoop(_, _, _, _, _, _, _)
dropKindLoop(acc, player, kinds, kingPos, kingFound, lo, hi) ==
  IF lo > hi THEN acc
  ELSE IF lo = hi THEN appendLegalDrops(acc.state, player, kinds[lo], kingPos, kingFound, acc.moves)
  ELSE CHOOSE r \in {dropKindLoop(first, player, kinds, kingPos, kingFound, (lo + hi) \div 2 + 1, hi) :
                       first \in {dropKindLoop(acc, player, kinds, kingPos, kingFound, lo, (lo + hi) \div 2)}} : TRUE

\* The order in which `range state.Hands[player]` yields the keys is not
\* fixed by Go: `order` is a permutation of the piece kinds and the keys
\* present are visited in that order.
KindOrders == {<<King, Gold, Silver, Pawn>>, <<Pawn, Silver, Gold, King>>, <<Gold, Pawn, King, Silver>>, <<Silver, King, Pawn, Gold>>}

DefaultOrder == <<King, Gold, Silver, Pawn>>

IsKeyOf(h, k) == k \in DOMAIN h

\* for dropType := range state.Hands[player], the keys in the order `kinds`
dropKindsOf(acc, player, kinds, k) == dropKindLoop(acc, player, kinds, k.pos, k.found, 1, Len(kinds))

\* game.go 362-364: the drops of every key of the hand map.
generateDrops(acc, player, order, k) ==
  dropKindsOf(acc, player, SelectSeq(order, LAMBDA kind : IsKeyOf(acc.state.Hands[player], kind)), k)

\* game.go 351-364 with the king found at line 349.
generateWithKing(state, player, order, k) ==
  generateDrops(boardLoop([state |-> state, moves |-> <<>>], player, k.pos, k.found, 0, NumCells - 1), player, order, k)

\* GenerateLegalMoves: [state, moves].  The Board of the result is the
\* callee's copy; its Hands are the maps the caller's state shares.
GenerateLegalMovesOrd(state, player, order) == generateWithKing(state, player, order, findKing(state, player))

\* The moves do not depend on the order, their order in the slice does;
\* where the order is not the subject the keys are visited in DefaultOrder.
GenerateLegalMoves(state, player) == GenerateLegalMovesOrd(state, player, DefaultOrder)

fromWithKing(state, from, k) ==
  appendLegalMovesForPiece(state, from, state.Board[from.Y][from.X], k.pos, k.found, <<>>)

GenerateLegalMovesFrom(state, player, from) ==
  IF ~insideBoard(from) THEN [state |-> state, moves |-> <<>>]
  ELSE IF ~state.Board[from.Y][from.X].Present \/ state.Board[from.Y][from.X].Owner # player
  THEN [state |-> state, moves |-> <<>>]
  ELSE fromWithKing(state, from, findKing(state, player))

dropsWithKing(state, player, pieceKind, k) ==
  appendLegalDrops(state, player, pieceKind, k.pos, k.found, <<>>)

GenerateLegalDrops(state, player, pieceKind) ==
  IF HandGet(state.Hands[player], pieceKind) = 0 THEN [state |-> state, moves |-> <<>>]
  ELSE dropsWithKing(state, player, pieceKind, findKing(state, player))

\* [mate, state]: the verdict and the position with the hand maps as the
\* move generation left them.
mateOf(g) == [mate |-> Len(g.moves) = 0, state |-> g.state]

\* IsCheckmate without the search for a legal move.
IsCheckmateByCheckAlone(state, player) == [mate |-> InCheck(state, player), state |-> state]

IsCheckmate(state, player) ==
  IF ~InCheck(state, player) THEN [mate |-> FALSE, state |-> state]
  ELSE mateOf(GenerateLegalMoves(state, player))

statusOf(state, r) ==
  IF ~r.mate THEN [mate |-> FALSE, winner |-> Bottom, state |-> r.state]
  ELSE [mate |-> TRUE, winner |-> Opponent(state.Turn), state |-> r.state]

CheckmateStatus(state) == statusOf(state, IsCheckmate(state, state.Turn))

movesEqual(a, b) ==
  IF a.HasDrop # b.HasDrop THEN FALSE
  ELSE IF a.HasDrop /\ b.HasDrop THEN a.Drop = b.Drop /\ a.To = b.To
  ELSE IF a.HasFrom # b.HasFrom THEN FALSE
  ELSE IF ~a.HasFrom \/ ~b.HasFrom THEN FALSE
  ELSE a.From = b.From /\ a.To = b.To /\ a.Promote = b.Promote

(***************************************************************************)
(* Position keys: encodeState and makeStateKey of the alpha-beta engine,   *)
(* stateKey of the TD-UCB engine, encodeStateKey of the MCTS engine.       *)
(* Keys are the strings the Go code builds, byte for byte.                 *)
(***************************************************************************)
\* strconv.Itoa
Itoa(n) == ToString(n)

\* byte('0' + n), n a player or a piece kind
DigitByte(n) == ToString(n)

\* strings.Builder: the pieces strs[lo .. hi] written one after the other.
RECURSIVE WriteAll(_, _, _)
WriteAll(strs, lo, hi) ==
  IF lo > hi THEN ""
  ELSE IF lo = hi THEN strs[lo]
  ELSE WriteAll(strs, lo, (lo + hi) \div 2) \o WriteAll(strs, (lo + hi) \div 2 + 1, hi)

PromotedByte(p) == IF p.Promoted THEN "1" ELSE "0"

orderedPieceTypes == <<King, Gold, Silver, Pawn>>

encodeStateCell(p) == IF ~p.Present THEN "." ELSE DigitByte(p.Kind) \o DigitByte(p.Owner) \o PromotedByte(p)

encodeStateRow(board, y) == WriteAll([i \in 1 .. BoardCols |-> encodeStateCell(board[y][i - 1])], 1, BoardCols) \o "/"

encodeStateHand(state, player) ==
  WriteAll([i \in 1 .. Len(orderedPieceTypes) |-> DigitByte(player) \o DigitByte(orderedPieceTypes[i]) \o Itoa(HandGet(state.Hands[player], orderedPieceTypes[i])) \o ","], 1, Len(orderedPieceTypes))

encodeState(state) ==
  WriteAll([i \in 1 .. BoardRows |-> encodeStateRow(state.Board, i - 1)], 1, BoardRows) \o "|" \o encodeStateHand(state, Bottom) \o encodeStateHand(state, Top)

makeStateKey(state, maximizer) == [boardKey |-> encodeState(state), turn |-> state.Turn, maximizer |-> maximizer]

\* TDUCBEngine.stateKey
stateKey(state) == encodeState(state) \o "#" \o DigitByte(state.Turn)

encodeStateKeyCell(p) == IF ~p.Present THEN "." ELSE DigitByte(p.Owner) \o DigitByte(p.Kind) \o PromotedByte(p)

encodeStateKeyHand(state, player) ==
  "|" \o WriteAll([i \in 1 .. Len(orderedPieceTypes) |-> Itoa(HandGet(state.Hands[player], orderedPieceTypes[i])) \o ","], 1, Len(orderedPieceTypes))

\* encodeStateKey without the byte of the side to move.
encodeStateKeyWithoutTurn(state) ==
  WriteAll([i \in 1 .. (BoardRows * BoardCols) |-> encodeStateKeyCell(state.Board[(i - 1) \div BoardCols][(i - 1) % BoardCols])], 1, BoardRows * BoardCols) \o encodeStateKeyHand(state, Bottom) \o encodeStateKeyHand(state, Top)

encodeStateKey(state) ==
  DigitByte(state.Turn) \o WriteAll([i \in 1 .. (BoardRows * BoardCols) |-> encodeStateKeyCell(state.Board[(i - 1) \div BoardCols][(i - 1) % BoardCols])], 1, BoardRows * BoardCols) \o encodeStateKeyHand(state, Bottom) \o encodeStateKeyHand(state, Top)

(***************************************************************************)
(* scoring.go and the alpha-beta engine.  The transposition table is a     *)
(* function from stateKey records to ttEntry records; search returns       *)
(* [score, hasMove, move, table], the table being the engine's after the   *)
(* call.                                                                   *)
(***************************************************************************)
pieceScores == (King :> 1000) @@ (Gold :> 70) @@ (Silver :> 50) @@ (Pawn :> 10)

pieceValue(p) == IF (p.Kind = Silver \/ p.Kind = Pawn) /\ p.Promoted THEN pieceScores[Gold] ELSE pieceScores[p.Kind]

\* The sum of f[lo .. hi].
RECURSIVE SumRange(_, _, _)
SumRange(f, lo, hi) ==
  IF lo > hi THEN 0
  ELSE IF lo = hi THEN f[lo]
  ELSE SumRange(f, lo, (lo + hi) \div 2) + SumRange(f, (lo + hi) \div 2 + 1, hi)

cellBalance(p, player) == IF ~p.Present THEN 0 ELSE IF p.Owner = player THEN pieceValue(p) ELSE 0 - pieceValue(p)

handScore(h) == SumRange([i \in 1 .. Len(orderedPieceTypes) |-> pieceScores[orderedPieceTypes[i]] * HandGet(h, orderedPieceTypes[i])], 1, Len(orderedPieceTypes))

materialBalance(state, player) ==
  SumRange([i \in 1 .. NumCells |-> cellBalance(state.Board[CellAt(i - 1).Y][CellAt(i - 1).X], player)], 1, NumCells)
    + handScore(state.Hands[player]) - handScore(state.Hands[Opponent(player)])

boundExact == 0
boundLower == 1
boundUpper == 2

checkmateScore == 100000
infiniteScore == 1000000000

\* make(map[stateKey]ttEntry)
EmptyTable == [k \in {} |-> 0]

\* e.table[key] = entry
ttStore(table, key, entry) == (key :> entry) @@ table

\* evaluate: the zero-count keys IsCheckmate leaves in the hand maps of the
\* node's own copy change none of the terms.
evaluate(state, maximizer, depth) ==
  IF IsCheckmate(state, maximizer).mate THEN 0 - checkmateScore - depth
  ELSE IF IsCheckmate(state, Opponent(maximizer)).mate THEN checkmateScore + depth
  ELSE materialBalance(state, maximizer)
         - (IF InCheck(state, maximizer) THEN 5 ELSE 0)
         + (IF InCheck(state, Opponent(maximizer)) THEN 5 ELSE 0)

determineBound(score, alphaOrig, betaOrig) ==
  IF score <= alphaOrig THEN boundUpper
  ELSE IF score >= betaOrig THEN boundLower
  ELSE boundExact

makeEntry(score, depth, bound, hasChosen, chosen) ==
  [depth |-> depth, score |-> score, move |-> IF hasChosen THEN chosen ELSE ZeroMove, hasMove |-> hasChosen, bound |-> bound]

\* return entry.score, duplicateEntryMove(entry), at a node searched to
\* `depth`.  `used` records, for every entry whose score a node of the
\* search returned, the depth the entry was stored with and the depth
\* requested at the node.
duplicateEntryMove(table, entry, depth) ==
  [score |-> entry.score, hasMove |-> entry.hasMove, move |-> entry.move, table |-> table,
   used |-> {[entryDepth |-> entry.depth, depth |-> depth]}]

\* part_006 86-89 and 92-96: the node is scored by evaluate.
searchLeaf(table, key, depth, score) ==
  [score |-> score, hasMove |-> FALSE, move |-> ZeroMove, used |-> {},
   table |-> ttStore(table, key, [depth |-> depth, score |-> score, move |-> ZeroMove, hasMove |-> FALSE, bound |-> boundExact])]

\* state.Turn = state.Turn.Opponent()
FlipTurn(state) == [state EXCEPT !.Turn = Opponent(state.Turn)]

\* next := CloneState(state); ApplyMove(&next, mv); next.Turn = next.Turn.Opponent()
searchChild(state, mv) == FlipTurn(ApplyMove(CloneState(state), mv))

\* The loop body with a break after the first move of the loop.
searchAfterFirstChild(acc, mv, r, maximizing) ==
  [bestScore |-> r.score, hasChosen |-> TRUE, chosen |-> mv,
   alpha |-> acc.alpha, beta |-> acc.beta, table |-> r.table, done |-> TRUE, used |-> acc.used \cup r.used]

\* The loop body that leaves the loop when the best score reaches its own
\* side of the window (alpha at a maximizing node, beta at a minimizing
\* one) instead of the far side.
searchAfterChildCutsOnNearSide(acc, mv, r, maximizing) ==
  LET better == IF maximizing THEN r.score > acc.bestScore ELSE r.score < acc.bestScore
      bestScore == IF better THEN r.score ELSE acc.bestScore
      alpha == IF maximizing /\ bestScore > acc.alpha THEN bestScore ELSE acc.alpha
      beta == IF ~maximizing /\ bestScore < acc.beta THEN bestScore ELSE acc.beta
  IN [bestScore |-> bestScore, hasChosen |-> better \/ acc.hasChosen, chosen |-> IF better THEN mv ELSE acc.chosen,
      alpha |-> alpha, beta |-> beta, table |-> r.table,
      done |-> IF maximizing THEN bestScore >= acc.alpha ELSE bestScore <= acc.beta, used |-> acc.used \cup r.used]

\* part_006 107-116 (maximizer to move) and 129-138: the loop body after
\* the recursive call returned r.
searchAfterChild(acc, mv, r, maximizing) ==
  LET better == IF maximizing THEN r.score > acc.bestScore ELSE r.score < acc.bestScore
      bestScore == IF better THEN r.score ELSE acc.bestScore
      alpha == IF maximizing /\ bestScore > acc.alpha THEN bestScore ELSE acc.alpha
      beta == IF ~maximizing /\ bestScore < acc.beta THEN bestScore ELSE acc.beta
  IN [bestScore |-> bestScore, hasChosen |-> better \/ acc.hasChosen, chosen |-> IF better THEN mv ELSE acc.chosen,
      alpha |-> alpha, beta |-> beta, table |-> r.table, done |-> beta <= alpha, used |-> acc.used \cup r.used]

RECURSIVE searchOrd(_, _, _, _, _, _, _)

\* One pass of the loop over the legal moves; `done` is the break.
searchStep(acc, state, mv, depth, maximizer, order) ==
  IF acc.done THEN acc
  ELSE searchAfterChild(acc, mv, searchOrd(acc.table, searchChild(state, mv), depth - 1, acc.alpha, acc.beta, maximizer, order), state.Turn = maximizer)

\* for _, mv := range legal, over legal[lo .. hi]
RECURSIVE searchMoves(_, _, _, _, _, _, _, _)
searchMoves(acc, state, legal, depth, maximizer, order, lo, hi) ==
  IF lo = hi THEN searchStep(acc, state, legal[lo], depth, maximizer, order)
  ELSE CHOOSE r \in {searchMoves(first, state, legal, depth, maximizer, order, (lo + hi) \div 2 + 1, hi) :
                       first \in {searchMoves(acc, state, legal, depth, maximizer, order, lo, (lo + hi) \div 2)}} : TRUE

\* part_006 117-119 and 140-142
searchStore(acc, key, depth, alphaOrig, betaOrig) ==
  [score |-> acc.bestScore, hasMove |-> acc.hasChosen, move |-> acc.chosen, used |-> acc.used,
   table |-> ttStore(acc.table, key, makeEntry(acc.bestScore, depth, determineBound(acc.bestScore, alphaOrig, betaOrig), acc.hasChosen, acc.chosen))]

\* part_006 91-142: g is GenerateLegalMoves(state, state.Turn), whose state
\* carries the hand maps the children are cloned from.
searchLegal(table, g, depth, alpha, beta, alphaOrig, betaOrig, maximizer, key, order) ==
  IF Len(g.moves) = 0 THEN searchLeaf(table, key, depth, evaluate(g.state, maximizer, depth))
  ELSE searchStore(searchMoves([bestScore |-> IF g.state.Turn = maximizer THEN 0 - infiniteScore ELSE infiniteScore,
                                hasChosen |-> FALSE, chosen |-> ZeroMove, alpha |-> alpha, beta |-> beta, table |-> table, done |-> FALSE, used |-> {}],
                               g.state, g.moves, depth, maximizer, order, 1, Len(g.moves)),
                   key, depth, alphaOrig, betaOrig)

\* part_006 85-142
searchNode(table, state, depth, alpha, beta, alphaOrig, betaOrig, maximizer, key, order) ==
  IF depth = 0 THEN searchLeaf(table, key, depth, evaluate(state, maximizer, depth))
  ELSE searchLegal(table, GenerateLegalMovesOrd(state, state.Turn, order), depth, alpha, beta, alphaOrig, betaOrig, maximizer, key, order)

\* part_006 80-83
searchWindow(table, state, depth, alpha, beta, alphaOrig, betaOrig, maximizer, key, entry, order) ==
  IF alpha >= beta THEN duplicateEntryMove(table, entry, depth)
  ELSE searchNode(table, state, depth, alpha, beta, alphaOrig, betaOrig, maximizer, key, order)

\* part_006 67-83: the entry found in the table
searchEntry(table, state, depth, alpha, beta, maximizer, key, entry, order) ==
  IF entry.bound = boundExact THEN duplicateEntryMove(table, entry, depth)
  ELSE searchWindow(table, state, depth,
                    IF entry.bound = boundLower /\ entry.score > alpha THEN entry.score ELSE alpha,
                    IF entry.bound = boundUpper /\ entry.score < beta THEN entry.score ELSE beta,
                    alpha, beta, maximizer, key, entry, order)

\* part_006 67 without the test of the depth: any remembered entry is used.
searchKeyedAnyDepth(table, state, depth, alpha, beta, maximizer, key, order) ==
  IF key \in DOMAIN table
  THEN searchEntry(table, state, depth, alpha, beta, maximizer, key, table[key], order)
  ELSE searchNode(table, state, depth, alpha, beta, alpha, beta, maximizer, key, order)

\* part_006 67: if entry, ok := e.table[key]; ok && entry.depth >= depth
searchKeyed(table, state, depth, alpha, beta, maximizer, key, order) ==
  IF key \in DOMAIN table /\ table[key].depth >= depth
  THEN searchEntry(table, state, depth, alpha, beta, maximizer, key, table[key], order)
  ELSE searchNode(table, state, depth, alpha, beta, alpha, beta, maximizer, key, order)

\* AlphaBetaEngine.search, the hand maps ranged over in the order `order`.
searchOrd(table, state, depth, alpha, beta, maximizer, order) ==
  searchKeyed(table, state, depth, alpha, beta, maximizer, makeStateKey(state, maximizer), order)

search(table, state, depth, alpha, beta, maximizer) ==
  searchOrd(table, state, depth, alpha, beta, maximizer, DefaultOrder)

\* NewAlphaBetaEngine(3) of the server
AlphaBetaDepth == 3

\* AlphaBetaEngine.NextMove: [err, move, table, state], state being the
\* caller's position with the hand maps as the call left them; `score` is
\* the score search returned for the root (part_006 52).
alphaBetaBest(r, state) ==
  IF ~r.hasMove THEN [err |-> TRUE, move |-> ZeroMove, table |-> r.table, state |-> state, used |-> r.used, score |-> r.score]
  ELSE [err |-> FALSE, move |-> r.move, table |-> r.table, state |-> state, used |-> r.used, score |-> r.score]

\* AlphaBetaEngine.NextMove that searches before it looks for a legal move.
alphaBetaSearchUnchecked(table, g, depth, order) ==
  alphaBetaBest(searchOrd(table, g.state, depth, 0 - infiniteScore, infiniteScore, g.state.Turn, order), g.state)

alphaBetaSearch(table, g, depth, order) ==
  IF Len(g.moves) = 0 THEN [err |-> TRUE, move |-> ZeroMove, table |-> table, state |-> g.state, used |-> {}, score |-> 0]
  ELSE alphaBetaBest(searchOrd(table, g.state, depth, 0 - infiniteScore, infiniteScore, g.state.Turn, order), g.state)

\* AlphaBetaEngine.NextMove, every range over a hand map of the call taking
\* the keys in the order `order`.
AlphaBetaNextMoveOrd(table, state, depth, order) ==
  alphaBetaSearch(table, GenerateLegalMovesOrd(state, state.Turn, order), depth, order)

AlphaBetaNextMove(table, state, depth) == AlphaBetaNextMoveOrd(table, state, depth, DefaultOrder)

(***************************************************************************)
(* MateSearch (game.go 622-682).  A result is [found, line, state]: the    *)
(* verdict, the line (nil and the empty slice are both <<>>), and the      *)
(* position of the call with the hand maps as the call left them.          *)
(***************************************************************************)
RECURSIVE mateSearch(_, _, _, _)

\* next := CloneState(state); ApplyMove(&next, mv); next.Turn = player.Opponent()
mateNext(state, mv) == [ApplyMove(CloneState(state), mv) EXCEPT !.Turn = Opponent(state.Turn)]

\* game.go 655-660, cm being IsCheckmate(next, defender), whose generation
\* wrote the hand maps of next.
mateAfterCheck(acc, mv, cm, attacker, defender, depth) ==
  IF cm.mate THEN [acc EXCEPT !.found = TRUE, !.line = <<mv>>]
  ELSE CHOOSE a \in {IF r.found THEN [acc EXCEPT !.found = TRUE, !.line = <<mv>> \o r.line] ELSE acc :
                        r \in {mateSearch(cm.state, attacker, defender, depth - 1)}} : TRUE

\* The attacker's loop without the test for an immediate mate.
mateAttackerStepNoCheck(acc, state, mv, attacker, defender, depth) ==
  IF acc.found THEN acc
  ELSE mateAfterCheck(acc, mv, [mate |-> FALSE, state |-> mateNext(state, mv)], attacker, defender, depth)

\* game.go 650-661: one pass of the attacker's loop.
mateAttackerStep(acc, state, mv, attacker, defender, depth) ==
  IF acc.found THEN acc
  ELSE mateAfterCheck(acc, mv, IsCheckmate(mateNext(state, mv), defender), attacker, defender, depth)

\* game.go 671-677, r being mateSearch(next, attacker, defender, depth-1)
mateAfterReply(acc, mv, r) ==
  IF ~r.found THEN [acc EXCEPT !.failed = TRUE]
  ELSE IF ~acc.hasLine THEN [acc EXCEPT !.hasLine = TRUE, !.line = <<mv>> \o r.line]
  ELSE acc

\* game.go 666-678: one pass of the defender's loop.
mateDefenderStep(acc, state, mv, attacker, defender, depth) ==
  IF acc.failed THEN acc
  ELSE mateAfterReply(acc, mv, mateSearch(mateNext(state, mv), attacker, defender, depth - 1))

\* for _, mv := range moves, over moves[lo .. hi]
RECURSIVE mateMoves(_, _, _, _, _, _, _, _)
mateMoves(acc, state, moves, attacker, defender, depth, lo, hi) ==
  IF lo = hi
  THEN IF state.Turn = attacker THEN mateAttackerStep(acc, state, moves[lo], attacker, defender, depth)
       ELSE mateDefenderStep(acc, state, moves[lo], attacker, defender, depth)
  ELSE CHOOSE r \in {mateMoves(first, state, moves, attacker, defender, depth, (lo + hi) \div 2 + 1, hi) :
                       first \in {mateMoves(acc, state, moves, attacker, defender, depth, lo, (lo + hi) \div 2)}} : TRUE

\* game.go 663 and 679-682: what the loop over the moves returns.
mateVerdict(acc, g, attacker) ==
  IF g.state.Turn = attacker THEN [found |-> acc.found, line |-> acc.line, state |-> g.state]
  ELSE IF acc.failed THEN [found |-> FALSE, line |-> <<>>, state |-> g.state]
  ELSE [found |-> TRUE, line |-> acc.line, state |-> g.state]

\* game.go 640-682, g being GenerateLegalMoves(state, player)
mateSearchLegal(g, attacker, defender, depth) ==
  IF Len(g.moves) = 0
  THEN [found |-> g.state.Turn = defender /\ InCheck(g.state, defender), line |-> <<>>, state |-> g.state]
  ELSE mateVerdict(mateMoves([found |-> FALSE, failed |-> FALSE, hasLine |-> FALSE, line |-> <<>>],
                             g.state, g.moves, attacker, defender, depth, 1, Len(g.moves)),
                   g, attacker)

mateSearch(state, attacker, defender, depth) ==
  IF depth = 0 THEN [found |-> FALSE, line |-> <<>>, state |-> state]
  ELSE mateSearchLegal(GenerateLegalMoves(state, state.Turn), attacker, defender, depth)

\* MateSearch that searches one ply when the limit is not positive.
MateSearchAtLeastOnePly(state, attacker, depth) ==
  mateSearch(state, attacker, Opponent(attacker), IF depth <= 0 THEN 1 ELSE depth)

MateSearch(state, attacker, depth) ==
  IF depth <= 0 THEN [found |-> FALSE, line |-> <<>>, state |-> state]
  ELSE mateSearch(state, attacker, Opponent(attacker), depth)

(***************************************************************************)
(* Random sources.  A draw of rng.Intn(n) is an input of the model: the    *)
(* RngWidth smallest values and the largest one are explored.  A Shuffle   *)
(* followed by a scan for the first element that qualifies picks any of    *)
(* the qualifying elements; it is explored through the same draws.         *)
(***************************************************************************)
RngWidth == 1

\* rng.Intn(n)
RngDraws(n) == {d \in 0 .. (n - 1) : d < RngWidth \/ d = n - 1}

\* rng.Shuffle(len(s), ...) and the first element of the shuffled slice
\* among those of s.
ShuffledFirst(s) == {s[d + 1] : d \in RngDraws(Len(s))}

FileLetters == <<"a", "b", "c", "d", "e">>

\* fmt.Sprintf("%c%d", 'a'+c.X, c.Y+1)
CoordToString(c) == FileLetters[c.X + 1] \o ToString(c.Y + 1)

PieceTypeCode(pt) == IF pt = King THEN "K" ELSE IF pt = Gold THEN "G" ELSE IF pt = Silver THEN "S" ELSE IF pt = Pawn THEN "P" ELSE "?"

\* The characters of CoordToString(c).
coordChars(c) == <<FileLetters[c.X + 1], ToString(c.Y + 1)>>

\* The characters FormatMove writes, one string of length 1 each.
formatChars(m) ==
  IF m.HasDrop THEN <<PieceTypeCode(m.Drop), "@">> \o coordChars(m.To)
  ELSE coordChars(m.From) \o coordChars(m.To) \o (IF m.Promote THEN <<"+">> ELSE <<>>)

\* The string of four or five characters.
stringOf(cs) ==
  IF Len(cs) = 5 THEN cs[1] \o cs[2] \o cs[3] \o cs[4] \o cs[5]
  ELSE cs[1] \o cs[2] \o cs[3] \o cs[4]

FormatMove(m) == stringOf(formatChars(m))

LowerLetters == <<"a", "b", "c", "d", "e", "f", "g", "h", "i", "j", "k", "l", "m", "n", "o", "p", "q", "r", "s", "t", "u", "v", "w", "x", "y", "z">>

UpperLetters == <<"A", "B", "C", "D", "E", "F", "G", "H", "I", "J", "K", "L", "M", "N", "O", "P", "Q", "R", "S", "T", "U", "V", "W", "X", "Y", "Z">>

letterIndex(letters, ch) == IF \E i \in 1 .. Len(letters) : letters[i] = ch THEN CHOOSE i \in 1 .. Len(letters) : letters[i] = ch ELSE 0

\* strings.ToLower and strings.ToUpper, character by character
ToLower(cs) == [i \in 1 .. Len(cs) |-> IF letterIndex(UpperLetters, cs[i]) > 0 THEN LowerLetters[letterIndex(UpperLetters, cs[i])] ELSE cs[i]]

ToUpper(cs) == [i \in 1 .. Len(cs) |-> IF letterIndex(LowerLetters, cs[i]) > 0 THEN UpperLetters[letterIndex(LowerLetters, cs[i])] ELSE cs[i]]

\* strings.TrimSpace followed by strings.ReplaceAll(s, " ", ""): no space
\* is left (of the white space only blanks are in the inputs drawn).
withoutSpaces(cs) == SelectSeq(cs, LAMBDA ch : ch # " ")

\* ParsePieceChar: [ok, kind]
ParsePieceChar(cs) ==
  IF cs = <<"K">> THEN [ok |-> TRUE, kind |-> King]
  ELSE IF cs = <<"G">> THEN [ok |-> TRUE, kind |-> Gold]
  ELSE IF cs = <<"S">> THEN [ok |-> TRUE, kind |-> Silver]
  ELSE IF cs = <<"P">> THEN [ok |-> TRUE, kind |-> Pawn]
  ELSE [ok |-> FALSE, kind |-> King]

RankDigits == <<"1", "2", "3", "4", "5", "6">>

\* ParseCoord: [err, coord]
ParseCoord(cs) ==
  IF Len(cs) # 2 THEN [err |-> TRUE, coord |-> Coord(0, 0)]
  ELSE IF letterIndex(FileLetters, cs[1]) = 0 \/ letterIndex(RankDigits, cs[2]) = 0 THEN [err |-> TRUE, coord |-> Coord(0, 0)]
  ELSE [err |-> FALSE, coord |-> Coord(letterIndex(FileLetters, cs[1]) - 1, letterIndex(RankDigits, cs[2]) - 1)]

parseFailed == [err |-> TRUE, move |-> ZeroMove]

\* strings.Split(s, "@"): the parts between the separators
atSigns(cs) == {i \in 1 .. Len(cs) : cs[i] = "@"}

parseDropParts(kind, to) ==
  IF ~kind.ok THEN parseFailed
  ELSE IF to.err THEN parseFailed
  ELSE [err |-> FALSE, move |-> DropMove(kind.kind, to.coord)]

parseDrop(cs) ==
  IF Cardinality(atSigns(cs)) # 1 THEN parseFailed
  ELSE IF Len(cs) # 4 \/ cs[2] # "@" THEN parseFailed
  ELSE parseDropParts(ParsePieceChar(ToUpper(SubSeq(cs, 1, 1))), ParseCoord(SubSeq(cs, 3, 4)))

parseBoardParts(from, to, promote) ==
  IF from.err THEN parseFailed
  ELSE IF to.err THEN parseFailed
  ELSE [err |-> FALSE, move |-> BoardMove(from.coord, to.coord, promote)]

parseBoard(cs, promote) ==
  IF Len(cs) # 4 THEN parseFailed
  ELSE parseBoardParts(ParseCoord(SubSeq(cs, 1, 2)), ParseCoord(SubSeq(cs, 3, 4)), promote)

hasPlus(cs) == Len(cs) > 0 /\ cs[Len(cs)] = "+"

parseCleaned(cs) ==
  IF Len(cs) = 0 THEN parseFailed
  ELSE IF atSigns(cs) # {} THEN parseDrop(cs)
  ELSE IF hasPlus(cs) THEN parseBoard(SubSeq(cs, 1, Len(cs) - 1), TRUE)
  ELSE parseBoard(cs, FALSE)

\* The parse that takes a trailing "+" for a part of the destination.
ParseMoveKeepingPlus(input) ==
  IF Len(withoutSpaces(ToLower(input))) = 0 THEN parseFailed
  ELSE IF atSigns(withoutSpaces(ToLower(input))) # {} THEN parseDrop(withoutSpaces(ToLower(input)))
  ELSE parseBoard(withoutSpaces(ToLower(input)), FALSE)

\* ParseMove(input): [err, move], the input given by its characters.
ParseMove(input) == parseCleaned(withoutSpaces(ToLower(input)))

(***************************************************************************)
(* RandomEngine.NextMove: the set of [err, move, state] a call can return. *)
(***************************************************************************)
randomPick(g) ==
  IF Len(g.moves) = 0 THEN {[err |-> TRUE, move |-> ZeroMove, state |-> g.state]}
  ELSE {[err |-> FALSE, move |-> g.moves[d + 1], state |-> g.state] : d \in RngDraws(Len(g.moves))}

\* RandomEngine.NextMove that draws among the moves of the side not to move.
RandomNextMoveForOpponent(state) == randomPick(GenerateLegalMoves(state, Opponent(state.Turn)))

RandomNextMove(state) == randomPick(GenerateLegalMoves(state, state.Turn))

(***************************************************************************)
(* MCTS engine: the search tree.  A node is [state, move, hasMove,         *)
(* children, untried, visits, wins]; the parent pointer is the path from   *)
(* the root.  wins counts half points (a draw is 1, a win 2), so that it   *)
(* stays an integer.                                                       *)
(***************************************************************************)
mctsNodeOf(g, move, hasMove) ==
  [state |-> g.state, move |-> move, hasMove |-> hasMove, children |-> <<>>, untried |-> g.moves, visits |-> 0, wins |-> 0]

newMCTSNode(state, move, hasMove) == mctsNodeOf(GenerateLegalMoves(state, state.Turn), move, hasMove)

\* selectChild: the first child never visited, else the child of the
\* highest UCB score.  The floating-point scores are not computed: every
\* child is a possible maximum.
selectChild(node) ==
  IF \E i \in 1 .. Len(node.children) : node.children[i].visits = 0
  THEN {CHOOSE i \in 1 .. Len(node.children) : node.children[i].visits = 0 /\ \A j \in 1 .. (i - 1) : node.children[j].visits # 0}
  ELSE 1 .. Len(node.children)

\* mcts_engine.go 87-90: the paths the descent can take from `node`.
RECURSIVE Descents(_)
Descents(node) ==
  IF Len(node.untried) = 0 /\ Len(node.children) > 0
  THEN UNION {{<<c>> \o d : d \in Descents(node.children[c])} : c \in selectChild(node)}
  ELSE {<<>>}

RECURSIVE nodeAt(_, _)
nodeAt(node, path) == IF Len(path) = 0 THEN node ELSE nodeAt(node.children[path[1]], Tail(path))

\* n.untried[idx] = n.untried[len-1]; n.untried = n.untried[:len-1]
swapRemove(untried, idx) ==
  [i \in 1 .. (Len(untried) - 1) |-> IF i = idx + 1 THEN untried[Len(untried)] ELSE untried[i]]

\* expand: the child made for untried[idx].
expandChild(node, idx) ==
  newMCTSNode(FlipTurn(ApplyMove(CloneState(node.state), node.untried[idx + 1])), node.untried[idx + 1], TRUE)

\* The position the rollout starts from.
rolloutStart(node, idx) == IF Len(node.untried) > 0 THEN expandChild(node, idx).state ELSE node.state

\* backpropagate: the reward in half points.
rewardOf(winner, decided, root) == IF decided THEN (IF winner = root THEN 2 ELSE 0) ELSE 1

\* rollout: exact where the position has no legal move; else the random
\* playout can end in any of the three results.
rolloutRewards(state, root) ==
  IF Len(GenerateLegalMoves(state, state.Turn).moves) = 0
  THEN (IF InCheck(state, state.Turn) THEN {rewardOf(Opponent(state.Turn), TRUE, root)} ELSE {rewardOf(root, FALSE, root)})
  ELSE {rewardOf(root, TRUE, root), rewardOf(Opponent(root), TRUE, root), rewardOf(root, FALSE, root)}

\* The visit that counts a reward twice.
visitOnceRewardTwice(node, reward) == [node EXCEPT !.visits = @ + 1, !.wins = @ + 2 * reward]

\* node.visits++; node.wins += reward
visitOnce(node, reward) == [node EXCEPT !.visits = @ + 1, !.wins = @ + reward]

\* One iteration of mcts_engine.go 86-96 along `path`: expansion with the
\* draw idx, backpropagation of the rollout's reward.
RECURSIVE iterateAt(_, _, _, _)
iterateAt(node, path, idx, reward) ==
  IF Len(path) = 0
  THEN IF Len(node.untried) > 0
       THEN visitOnce([node EXCEPT !.children = Append(@, visitOnce(expandChild(node, idx), reward)), !.untried = swapRemove(@, idx)], reward)
       ELSE visitOnce(node, reward)
  ELSE visitOnce([node EXCEPT !.children[path[1]] = iterateAt(@, Tail(path), idx, reward)], reward)

\* The index of the child bestChildByVisits returns, 0 for nil.
bestChildByVisits(node) ==
  IF Len(node.children) = 0 THEN 0
  ELSE CHOOSE i \in 1 .. Len(node.children) :
         /\ \A j \in 1 .. Len(node.children) : node.children[j].visits <= node.children[i].visits
         /\ \A j \in 1 .. (i - 1) : node.children[j].visits < node.children[i].visits

\* make(map[string]map[string]moveStats)
EmptyKnowledge == [k \in {} |-> 0]

NoEntries == [k \in {} |-> 0]

\* snapshotKnowledge, the locked part: the clone of knowledge[key].
knowledgeEntries(knowledge, key) == IF key \in DOMAIN knowledge THEN knowledge[key] ELSE NoEntries

priorChild(root, mv, stats) ==
  [newMCTSNode(FlipTurn(ApplyMove(CloneState(root.state), mv)), mv, TRUE) EXCEPT !.visits = stats.Visits, !.wins = stats.Wins]

priorChildren(root, known, entries) == [i \in 1 .. Len(known) |-> priorChild(root, known[i], entries[FormatMove(known[i])])]

applyPriorKnowledge(root, entries) ==
  IF DOMAIN entries = {} THEN root
  ELSE [root EXCEPT !.children = @ \o priorChildren(root, SelectSeq(root.untried, LAMBDA mv : FormatMove(mv) \in DOMAIN entries), entries),
                    !.untried = SelectSeq(@, LAMBDA mv : FormatMove(mv) \notin DOMAIN entries)]

\* updateKnowledgeFromRoot: the entries built from the root's children,
\* a later child replacing an earlier one of the same move text.
rootEntries(root) ==
  [k \in {FormatMove(root.children[i].move) : i \in {j \in 1 .. Len(root.children) : root.children[j].hasMove}} |->
     LET last == CHOOSE i \in 1 .. Len(root.children) :
                   /\ root.children[i].hasMove /\ FormatMove(root.children[i].move) = k
                   /\ \A j \in (i + 1) .. Len(root.children) : ~(root.children[j].hasMove /\ FormatMove(root.children[j].move) = k)
     IN [Visits |-> root.children[last].visits, Wins |-> root.children[last].wins]]

(***************************************************************************)
(* TD-UCB engine.  values and moveStats totals are float64 in the code;    *)
(* here they are integers in units of 1e-9, nine decimals being what the   *)
(* first nine updates of a value need.  td is [values, moveStats, dirty,   *)
(* storagePath].                                                           *)
(***************************************************************************)
\* The float64 n.
tdReal(n) == n * 1000000000

Quot(a, b) == IF a >= 0 THEN a \div b ELSE 0 - ((0 - a) \div b)

\* x - b * Quot(x, b)
Rem(a, b) == a - b * Quot(a, b)

\* e.alpha * x, alpha = defaultTDAlpha = 0.4: 2x/5, computed without a
\* product above 2^31.
tdAlphaTimes(x) == 2 * Quot(x, 5) + Quot(2 * Rem(x, 5), 5)

\* e.gamma * x, gamma = defaultTDGamma = 0.95: 19x/20
tdGammaTimes(x) == 19 * Quot(x, 20) + Quot(19 * Rem(x, 20), 20)

EmptyValues == [k \in {} |-> 0]

outcomeForBottom(winner) == IF winner = Bottom THEN tdReal(1) ELSE IF winner = Top THEN 0 - tdReal(1) ELSE 0

stateValue(td, state) == IF stateKey(state) \in DOMAIN td.values THEN td.values[stateKey(state)] ELSE 0

\* tdMoveStat.mean
tdMean(entry) == IF entry.visits = 0 THEN 0 ELSE Quot(entry.total, entry.visits)

statsOf(td, key) == IF key \in DOMAIN td.moveStats THEN td.moveStats[key] ELSE NoEntries

moveMean(stats, mv) == IF FormatMove(mv) \in DOMAIN stats THEN tdMean(stats[FormatMove(mv)]) ELSE 0

markDirty(td) == IF td.storagePath # "" THEN [td EXCEPT !.dirty = TRUE] ELSE td

\* evaluateOutcome: [reward, terminal, state], the state with the hand
\* maps as the generation left them.
outcomeOf(g, mover) ==
  IF Len(g.moves) > 0 THEN [reward |-> 0, terminal |-> FALSE, state |-> g.state]
  ELSE IF InCheck(g.state, g.state.Turn) THEN [reward |-> outcomeForBottom(mover), terminal |-> TRUE, state |-> g.state]
  ELSE [reward |-> 0, terminal |-> TRUE, state |-> g.state]

evaluateOutcome(state, mover) == outcomeOf(GenerateLegalMoves(state, state.Turn), mover)

\* selectSimulationMove, part_000 276-280: the stats map is made when nil.
withStats(td, key) == IF key \in DOMAIN td.moveStats THEN td ELSE [td EXCEPT !.moveStats = (key :> NoEntries) @@ @]

unvisited(stats, legal) ==
  SelectSeq(legal, LAMBDA mv : FormatMove(mv) \notin DOMAIN stats \/ stats[FormatMove(mv)].visits = 0)

\* selectSimulationMove: the first move of the shuffled slice that was
\* never visited, else the move of the highest UCB score.  The
\* floating-point scores are not computed: every move is a possible maximum.
selectSimulationMove(td, key, legal) ==
  IF Len(unvisited(statsOf(td, key), legal)) > 0 THEN ShuffledFirst(unvisited(statsOf(td, key), legal))
  ELSE ShuffledFirst(legal)

updateMoveStats(td, key, mv, value) ==
  [td EXCEPT !.moveStats = (key :> ((FormatMove(mv) :>
      (IF FormatMove(mv) \in DOMAIN statsOf(td, key)
       THEN [visits |-> statsOf(td, key)[FormatMove(mv)].visits + 1, total |-> statsOf(td, key)[FormatMove(mv)].total + value]
       ELSE [visits |-> 1, total |-> value])) @@ statsOf(td, key))) @@ @]

\* part_000 253-269: the TD(0) update after the move led to `o`.
tdTarget(td, o) == o.reward + (IF o.terminal THEN 0 ELSE tdGammaTimes(stateValue(td, o.state)))

tdDoneValue(td, o) ==
  IF o.terminal /\ stateKey(o.state) \notin DOMAIN td.values THEN [td EXCEPT !.values = (stateKey(o.state) :> o.reward) @@ @] ELSE td

tdUpdate(td, key, currentValue, mv, o) ==
  tdDoneValue(updateMoveStats([td EXCEPT !.values = (key :> (currentValue + tdAlphaTimes(tdTarget(td, o) - currentValue))) @@ @], key, mv, tdTarget(td, o)), o)

\* Rollout depth and simulations of one NextMove (e.depth, e.simulations).
TDDepth == 2

TDSimulations == 1

RECURSIVE simulateFrom(_, _, _)

simulateOutcome(td, state, depth, mv, o) ==
  IF o.terminal THEN {tdUpdate(td, stateKey(state), stateValue(td, state), mv, o)}
  ELSE simulateFrom(tdUpdate(td, stateKey(state), stateValue(td, state), mv, o), o.state, depth + 1)

simulateMove(td, state, depth, mv) ==
  simulateOutcome(td, state, depth, mv, evaluateOutcome(FlipTurn(ApplyMove(state, mv)), state.Turn))

simulateLegal(td, depth, g) ==
  IF Len(g.moves) = 0
  THEN {[td EXCEPT !.values = (stateKey(g.state) :> (IF InCheck(g.state, g.state.Turn) THEN outcomeForBottom(Opponent(g.state.Turn)) ELSE 0)) @@ @]}
  ELSE UNION {simulateMove(withStats(td, stateKey(g.state)), g.state, depth, mv) : mv \in selectSimulationMove(td, stateKey(g.state), g.moves)}

\* The loop of runSimulation from `depth` on: the engines it can leave.
simulateFrom(td, state, depth) ==
  IF depth >= TDDepth THEN {td}
  ELSE simulateLegal(td, depth, GenerateLegalMoves(state, state.Turn))

runSimulation(td, root) == simulateFrom(markDirty(td), CloneState(root), 0)

RECURSIVE runSimulations(_, _, _)
runSimulations(tds, root, i) ==
  IF i >= TDSimulations THEN tds
  ELSE runSimulations(UNION {runSimulation(td, root) : td \in tds}, root, i + 1)

\* part_000 209-214: the mean of the move, negated for Top.
tdScore(stats, turn, mv) == IF turn = Top THEN 0 - moveMean(stats, mv) ELSE moveMean(stats, mv)

tdScores(stats, turn, legal) == [i \in 1 .. Len(legal) |-> tdScore(stats, turn, legal[i])]

tdHighest(legal, scores) ==
  ShuffledFirst(SelectSeq([i \in 1 .. Len(legal) |-> [mv |-> legal[i], score |-> scores[i]]],
                          LAMBDA c : \A i \in 1 .. Len(scores) : scores[i] <= c.score))

\* part_000 206-223: the first move of the highest score in the shuffled
\* slice.
tdBest(td, root, legal) ==
  {c.mv : c \in tdHighest(legal, tdScores(statsOf(td, stateKey(root)), root.Turn, legal))}

tdChoose(td, g) ==
  IF Len(g.moves) = 0 THEN {[err |-> TRUE, move |-> ZeroMove, td |-> td, state |-> g.state]}
  ELSE UNION {{[err |-> FALSE, move |-> mv, td |-> t, state |-> g.state] : mv \in tdBest(t, g.state, g.moves)} :
                t \in runSimulations({td}, CloneState(g.state), 0)}

\* TDUCBEngine.NextMove: the set of [err, move, td, state] a call can return.
TDUCBNextMove(td, state) == tdChoose(td, GenerateLegalMoves(state, state.Turn))

(***************************************************************************)
(* Positions the game is explored from: the initial setup, positions       *)
(* reached from it by replaying lines of legal moves, and the positions    *)
(* the tests and benchmarks of the repository construct.                   *)
(***************************************************************************)
\* TryApplyMove followed by the caller's flip of the side to move
\* (server.handleMove): [legal, state].  The legal moves are generated on
\* the caller's hand maps, the move is applied to a clone of them.
firstEqual(moves, move) ==
  IF \E i \in 1 .. Len(moves) : movesEqual(moves[i], move)
  THEN CHOOSE i \in 1 .. Len(moves) : movesEqual(moves[i], move) /\ \A j \in 1 .. (i - 1) : ~movesEqual(moves[j], move)
  ELSE 0

tryApplyFound(state, g, i) ==
  IF i = 0 THEN [legal |-> FALSE, state |-> [state EXCEPT !.Hands = g.state.Hands]]
  ELSE [legal |-> TRUE, state |-> ApplyMove(CloneState([state EXCEPT !.Hands = g.state.Hands]), g.moves[i])]

tryApplyWith(state, move, g) == tryApplyFound(state, g, firstEqual(g.moves, move))

TryApplyMove(state, move) == tryApplyWith(state, move, GenerateLegalMoves(state, state.Turn))

replayStep(state, r) == IF r.legal THEN FlipTurn(r.state) ELSE state

RECURSIVE Replay(_, _, _)
Replay(state, line, i) ==
  IF i > Len(line) THEN state
  ELSE CHOOSE r \in {Replay(nx, line, i + 1) : nx \in {replayStep(state, TryApplyMove(state, line[i]))}} : TRUE

\* 1. Sa1-a2 c4xc3  2. Se1-e2 c3-c2: the Top pawn checks the Bottom king.
LineTopChecks == <<BoardMove(Coord(0, 0), Coord(0, 1), FALSE), BoardMove(Coord(2, 3), Coord(2, 2), FALSE), BoardMove(Coord(4, 0), Coord(4, 1), FALSE), BoardMove(Coord(2, 2), Coord(2, 1), FALSE)>>

\* 1. b3xb4 Sa6-a5  2. b4-b5+ Kc6-d5: Bottom holds a Pawn and has a
\* promoted Pawn on the b file.
LinePromotedPawn == <<BoardMove(Coord(1, 2), Coord(1, 3), FALSE), BoardMove(Coord(0, 5), Coord(0, 4), FALSE), BoardMove(Coord(1, 3), Coord(1, 4), TRUE), BoardMove(Coord(2, 5), Coord(3, 4), FALSE)>>

\* 1. b3xb4 Sa6-a5  2. b4-b5 Kc6-d5: the Bottom Pawn on b5 is not promoted
\* and faces the farthest rank.
LinePawnOnFifth == <<BoardMove(Coord(1, 2), Coord(1, 3), FALSE), BoardMove(Coord(0, 5), Coord(0, 4), FALSE), BoardMove(Coord(1, 3), Coord(1, 4), FALSE), BoardMove(Coord(2, 5), Coord(3, 4), FALSE)>>

\* 1. c3xc4 b4xb3: Bottom holds a Pawn, the b file holds a Top Pawn only.
LineOpposingPawn == <<BoardMove(Coord(2, 2), Coord(2, 3), FALSE), BoardMove(Coord(1, 3), Coord(1, 2), FALSE)>>

\* TestCheckmateStatusMate
MatePosition == Place(Place(Place(Place(newEmptyState(Bottom), 0, 0, MkPiece(King, Bottom)), 0, 1, MkPiece(Gold, Top)), 1, 0, MkPiece(Gold, Top)), 1, 1, MkPiece(King, Top))

\* TestCheckmateStatusEscapeAvailable
EscapePosition == Place(Place(newEmptyState(Bottom), 0, 0, MkPiece(King, Bottom)), 0, 1, MkPiece(Gold, Top))

\* TestCheckmateStatusSafePosition
SafePosition == Place(Place(newEmptyState(Bottom), 0, 0, MkPiece(King, Bottom)), 4, 5, MkPiece(King, Top))

\* TestMateSearchDropMate
DropMatePosition == GiveHand(Place(Place(Place(newEmptyState(Bottom), 0, 5, MkPiece(King, Top)), 1, 3, MkPiece(Silver, Bottom)), 2, 4, MkPiece(Gold, Bottom)), Bottom, Pawn, 1)

\* BenchmarkGenerateLegalMoves: king_in_check
KingInCheckPosition == GiveHand(Place(Place(Place(Place(Place(newEmptyState(Bottom), 0, 0, MkPiece(King, Bottom)), 4, 5, MkPiece(King, Top)), 0, 1, MkPiece(Gold, Top)), 1, 3, MkPiece(Silver, Bottom)), 2, 2, MkPiece(Gold, Bottom)), Bottom, Pawn, 1)

\* BenchmarkGenerateLegalMovesFrom: silver_defense_top
SilverDefensePosition == Place(Place(Place(Place(Place(newEmptyState(Top), 2, 0, MkPiece(King, Bottom)), 2, 5, MkPiece(King, Top)), 2, 4, MkPiece(Silver, Top)), 1, 3, MkPiece(Gold, Bottom)), 2, 3, MkPiece(Pawn, Bottom))

\* [pos, setup]: a position and whether it stems from the initial setup by
\* legal moves.
Starts ==
  { [pos |-> NewGame, setup |-> TRUE],
    [pos |-> Replay(NewGame, LineTopChecks, 1), setup |-> TRUE],
    [pos |-> Replay(NewGame, LinePromotedPawn, 1), setup |-> TRUE],
    [pos |-> Replay(NewGame, LineOpposingPawn, 1), setup |-> TRUE],
    [pos |-> Replay(NewGame, LinePawnOnFifth, 1), setup |-> TRUE],
    [pos |-> MatePosition, setup |-> FALSE],
    [pos |-> EscapePosition, setup |-> FALSE],
    [pos |-> SafePosition, setup |-> FALSE],
    [pos |-> DropMatePosition, setup |-> FALSE],
    [pos |-> KingInCheckPosition, setup |-> FALSE],
    [pos |-> SilverDefensePosition, setup |-> FALSE] }

(***************************************************************************)
(* Knowledge files.  The bytes of a file are kept by their shape: a gzip   *)
(* stream (the header 0x1f 0x8b, the lines written so far, and the trailer *)
(* once the stream is closed), lines of text, or one JSON object.  A line  *)
(* is the record of its fields, the separators not being part of any key   *)
(* or move text; a number is written as the sequence of its characters.    *)
(***************************************************************************)
DecimalDigits == <<"0", "1", "2", "3", "4", "5", "6", "7", "8", "9">>

RECURSIVE digitsOf(_)
digitsOf(n) == IF n < 10 THEN <<DecimalDigits[n + 1]>> ELSE digitsOf(n \div 10) \o <<DecimalDigits[(n % 10) + 1]>>

\* strconv.Itoa(n) and the verb %d
ItoaText(n) == IF n < 0 THEN <<"-">> \o digitsOf(0 - n) ELSE digitsOf(n)

isDigits(t) == Len(t) > 0 /\ \A i \in 1 .. Len(t) : t[i] \in SeqToSet(DecimalDigits)

digitValue(c) == CHOOSE d \in 0 .. 9 : DecimalDigits[d + 1] = c

\* The number the first n digits of t denote.
RECURSIVE digitsValue(_, _)
digitsValue(t, n) == IF n = 0 THEN 0 ELSE 10 * digitsValue(t, n - 1) + digitValue(t[n])

negative(t) == Len(t) > 0 /\ t[1] = "-"

unsigned(t) == IF Len(t) > 0 /\ t[1] \in {"-", "+"} THEN Tail(t) ELSE t

signed(t, n) == IF negative(t) THEN 0 - n ELSE n

\* strconv.Atoi(t): [ok, n]
Atoi(t) ==
  IF isDigits(unsigned(t)) THEN [ok |-> TRUE, n |-> signed(t, digitsValue(unsigned(t), Len(unsigned(t))))]
  ELSE [ok |-> FALSE, n |-> 0]

pointAt(t) == IF \E i \in 1 .. Len(t) : t[i] = "." THEN CHOOSE i \in 1 .. Len(t) : t[i] = "." /\ \A j \in 1 .. (i - 1) : t[j] # "." ELSE 0

wholePart(t) == IF pointAt(t) = 0 THEN t ELSE SubSeq(t, 1, pointAt(t) - 1)

fracPart(t) == IF pointAt(t) = 0 THEN <<>> ELSE SubSeq(t, pointAt(t) + 1, Len(t))

zeros(n) == [i \in 1 .. n |-> "0"]

\* The first `places` digits after the point, zeros added on the right.
fracDigits(t, places) == SubSeq(fracPart(t) \o zeros(places), 1, places)

isDecimal(t) ==
  /\ isDigits(wholePart(unsigned(t)))
  /\ pointAt(t) = 0 \/ isDigits(fracPart(t))

PowerOfTen(n) == digitsValue(<<"1">> \o zeros(n), n + 1)

\* strconv.ParseFloat(t, 64) of a decimal without exponent: [ok, x], x in
\* units of 10^-places.
ParseFloat(t, places) ==
  IF isDecimal(t)
  THEN [ok |-> TRUE,
        x |-> signed(t, digitsValue(wholePart(unsigned(t)), Len(wholePart(unsigned(t)))) * PowerOfTen(places)
                        + digitsValue(fracDigits(t, places), places))]
  ELSE [ok |-> FALSE, x |-> 0]

\* The verb %.8f of a float64 of x units of 1e-9: the nearest multiple of
\* 1e-8, a tie going to the even one.
roundToEven(n) == IF n % 10 > 5 \/ (n % 10 = 5 /\ (n \div 10) % 2 = 1) THEN n \div 10 + 1 ELSE n \div 10

fixedText(n, places) ==
  digitsOf(n \div PowerOfTen(places)) \o <<".">>
    \o SubSeq(zeros(places) \o digitsOf(n % PowerOfTen(places)), Len(digitsOf(n % PowerOfTen(places))) + 1, Len(digitsOf(n % PowerOfTen(places))) + places)

FormatFixed8(x) == IF x < 0 THEN <<"-">> \o fixedText(roundToEven(0 - x), 8) ELSE fixedText(roundToEven(x), 8)

\* strconv.FormatFloat(wins, 'g', -1, 64), wins in half points: the
\* shortest decimal that denotes the float64.
FormatFloat(wins) == ItoaText(wins \div 2) \o (IF wins % 2 = 1 THEN <<".", "5">> ELSE <<>>)

\* strconv.ParseFloat of a win total, in half points.
ParseWins(t) == [ok |-> ParseFloat(t, 1).ok, x |-> Quot(2 * ParseFloat(t, 1).x, 10)]

GzipBytes(lines) == [shape |-> "gzip", lines |-> lines, closed |-> TRUE, states |-> EmptyKnowledge]

PlainBytes(lines) == [shape |-> "plain", lines |-> lines, closed |-> TRUE, states |-> EmptyKnowledge]

\* json.Marshal(storedKnowledge{States: states})
JSONBytes(states) == [shape |-> "json", lines |-> <<>>, closed |-> TRUE, states |-> states]

\* A file of no bytes.
NoBytes == PlainBytes(<<>>)

\* The first n lines of a gzip stream that was never closed.
Truncated(data, n) == [data EXCEPT !.lines = SubSeq(@, 1, n), !.closed = FALSE]

NoFile == [exists |-> FALSE, data |-> NoBytes]

FileOf(data) == [exists |-> TRUE, data |-> data]

\* The elements of a set in one order.
RECURSIVE SetToSeq(_)
SetToSeq(S) == IF S = {} THEN <<>> ELSE <<CHOOSE x \in S : TRUE>> \o SetToSeq(S \ {CHOOSE x \in S : TRUE})

\* encodeKnowledge 425-427: mv + ":" + strconv.Itoa(stats.Visits) + ":" + wins
encodePart(mv, stats) == [move |-> mv, visits |-> ItoaText(stats.Visits), wins |-> FormatFloat(stats.Wins)]

encodeParts(moves, moveKeys) == [i \in 1 .. Len(moveKeys) |-> encodePart(moveKeys[i], moves[moveKeys[i]])]

\* encodeKnowledge 415-433: the line of a key; the tab and the parts are
\* written when the key has moves.
encodeLine(key, moves) == [key |-> key, parts |-> encodeParts(moves, SetToSeq(DOMAIN moves))]

encodeLines(knowledge, keys) == [i \in 1 .. Len(keys) |-> encodeLine(keys[i], knowledge[keys[i]])]

\* encodeKnowledge: the lines in the order of the keys.  sort.Strings gives
\* the order in the code; here it is one fixed order, the decoder keeping a
\* map.
encodeKnowledge(knowledge) == encodeLines(knowledge, SetToSeq(DOMAIN knowledge))

\* decodeKnowledge 443-445: a line of white space
blankLine(line) == line.key = "" /\ line.parts = <<>>

\* decodeKnowledge 465-476
partOK(part) == Atoi(part.visits).ok /\ ParseWins(part.wins).ok

\* decodeKnowledge 450-452, 457-476
lineOK(line) == blankLine(line) \/ (line.key # "" /\ \A i \in 1 .. Len(line.parts) : partOK(line.parts[i]))

lastPart(parts, mv) == CHOOSE i \in 1 .. Len(parts) : parts[i].move = mv /\ \A j \in (i + 1) .. Len(parts) : parts[j].move # mv

\* decodeKnowledge 453-478 without the parts: every key with no move
decodeNoParts(parts) == NoEntries

\* decodeKnowledge 453-478: moves[move] = moveStats{Visits: visits, Wins: wins}
decodeParts(parts) ==
  [mv \in {parts[i].move : i \in 1 .. Len(parts)} |->
     [Visits |-> Atoi(parts[lastPart(parts, mv)].visits).n, Wins |-> ParseWins(parts[lastPart(parts, mv)].wins).x]]

lastLine(lines, key) == CHOOSE i \in 1 .. Len(lines) : lines[i].key = key /\ \A j \in (i + 1) .. Len(lines) : lines[j].key # key

\* decodeKnowledge 479: entries[stateKey] = moves
decodeLines(lines) ==
  [key \in {lines[i].key : i \in {j \in 1 .. Len(lines) : ~blankLine(lines[j])}} |-> decodeParts(lines[lastLine(lines, key)].parts)]

\* decodeKnowledge(r): [err, entries].  scanner.Err() is the error of a
\* gzip stream that ends before its trailer.
decodeKnowledge(data) ==
  IF (\A i \in 1 .. Len(data.lines) : lineOK(data.lines[i])) /\ (data.shape = "gzip" => data.closed)
  THEN [err |-> FALSE, entries |-> decodeLines(data.lines)]
  ELSE [err |-> TRUE, entries |-> EmptyKnowledge]

\* loadFromReader: [err, knowledge]
loadFromReader(knowledge, data) ==
  IF decodeKnowledge(data).err THEN [err |-> TRUE, knowledge |-> knowledge]
  ELSE [err |-> FALSE, knowledge |-> decodeKnowledge(data).entries]

\* loadLegacyJSON
loadLegacyJSON(knowledge, data) == [err |-> FALSE, knowledge |-> data.states]

\* len(bytes.TrimSpace(data)) == 0
trimmedEmpty(data) == data.shape = "plain" /\ \A i \in 1 .. Len(data.lines) : blankLine(data.lines[i])

\* MCTSEngine.loadKnowledge 295-317 on an engine of knowledge `knowledge`
\* whose storage path holds `file`: [err, knowledge].
loadKnowledge(storagePath, knowledge, file) ==
  IF storagePath = "" THEN [err |-> FALSE, knowledge |-> knowledge]
  ELSE IF ~file.exists THEN [err |-> FALSE, knowledge |-> knowledge]
  ELSE IF file.data.shape = "gzip" THEN loadFromReader(knowledge, file.data)
  ELSE IF trimmedEmpty(file.data) THEN [err |-> FALSE, knowledge |-> knowledge]
  ELSE IF file.data.shape = "json" THEN loadLegacyJSON(knowledge, file.data)
  ELSE loadFromReader(knowledge, file.data)

\* part_000 18-26
tdRecordState == "S"

tdRecordMove == "M"

\* writeKnowledge 413: "%s\t%s\t%.8f\n"
stateRecord(key, value) ==
  [kind |-> tdRecordState, count |-> 3, key |-> key, move |-> "", visits |-> <<>>, number |-> FormatFixed8(value)]

\* writeKnowledge 423-424: "%s\t%s\t%s\t%d\t%.8f\n"
moveRecord(key, mv, stat) ==
  [kind |-> tdRecordMove, count |-> 5, key |-> key, move |-> mv, visits |-> ItoaText(stat.visits), number |-> FormatFixed8(stat.total)]

stateRecords(values, keys) == [i \in 1 .. Len(keys) |-> stateRecord(keys[i], values[keys[i]])]

\* writeKnowledge 418-422: the pairs that were visited
visitedPairs(moveStats) ==
  UNION {{<<key, mv>> : mv \in {m \in DOMAIN moveStats[key] : moveStats[key][m].visits # 0}} : key \in DOMAIN moveStats}

moveRecords(moveStats, pairs) == [i \in 1 .. Len(pairs) |-> moveRecord(pairs[i][1], pairs[i][2], moveStats[pairs[i][1]][pairs[i][2]])]

\* writeKnowledge 411-429: the records of the values, then those of the
\* move statistics, each map in one order of its keys.
writeKnowledge(td) ==
  stateRecords(td.values, SetToSeq(DOMAIN td.values)) \o moveRecords(td.moveStats, SetToSeq(visitedPairs(td.moveStats)))

tdFailed(td) == [err |-> TRUE, td |-> td]

parseStateRecord(td, line) ==
  IF line.count # 3 THEN tdFailed(td)
  ELSE IF ~ParseFloat(line.number, 9).ok THEN tdFailed(td)
  ELSE [err |-> FALSE, td |-> [td EXCEPT !.values = (line.key :> ParseFloat(line.number, 9).x) @@ @]]

parseMoveRecord(td, line) ==
  IF line.count # 5 THEN tdFailed(td)
  ELSE IF ~Atoi(line.visits).ok THEN tdFailed(td)
  ELSE IF ~ParseFloat(line.number, 9).ok THEN tdFailed(td)
  ELSE [err |-> FALSE,
        td |-> [td EXCEPT !.moveStats = (line.key :> ((line.move :> [visits |-> Atoi(line.visits).n, total |-> ParseFloat(line.number, 9).x])
                                                      @@ statsOf(td, line.key))) @@ @]]

\* parseRecord(line): [err, td]
parseRecord(td, line) ==
  IF line.count = 0 THEN [err |-> FALSE, td |-> td]
  ELSE IF line.kind = tdRecordState THEN parseStateRecord(td, line)
  ELSE IF line.kind = tdRecordMove THEN parseMoveRecord(td, line)
  ELSE tdFailed(td)

\* loadKnowledge 452-458: the records in turn, up to the first that fails.
RECURSIVE parseRecords(_, _, _)
parseRecords(td, lines, i) ==
  IF i > Len(lines) THEN [err |-> FALSE, td |-> td]
  ELSE CHOOSE r \in {IF p.err THEN p ELSE parseRecords(p.td, lines, i + 1) : p \in {parseRecord(td, lines[i])}} : TRUE

\* loadKnowledge 459-462: scanner.Err() of a gzip stream without trailer
tdScanned(r, data) == IF ~r.err /\ ~data.closed THEN tdFailed(r.td) ELSE r

\* TDUCBEngine.loadKnowledge 434-464 on the engine `td` whose storage path
\* holds `file`: [err, td].  gzip.NewReader fails on bytes that do not
\* start a gzip stream.
tdLoadKnowledge(td, file) ==
  IF td.storagePath = "" THEN [err |-> FALSE, td |-> td]
  ELSE IF ~file.exists THEN [err |-> FALSE, td |-> td]
  ELSE IF file.data.shape # "gzip" THEN tdFailed(td)
  ELSE tdScanned(parseRecords(td, file.data.lines, 1), file.data)

(***************************************************************************)
(* State.  `state` is the current position, `before` the position the last *)
(* call was given and `out` the call and its result; `other` is a second   *)
(* position, for the comparison of keys.  `eng` holds the engine instance  *)
(* of each side, `engAtCall` what it held when the last call started, `mu` *)
(* the holder of the MCTS engine's lock and `procs` the NextMove calls of  *)
(* the MCTS engine that are under way.                                     *)
(***************************************************************************)
VARIABLES state, before, ply, calls, fromSetup, out, other, eng, engAtCall, mu, procs

vars == <<state, before, ply, calls, fromSetup, out, other, eng, engAtCall, mu, procs>>

NoOut == [op |-> "none", player |-> Bottom, kind |-> King, moves |-> <<>>, mate |-> FALSE, winner |-> Bottom, engine |-> "", err |-> FALSE, move |-> ZeroMove, used |-> {}, depth |-> 0, trail |-> <<>>, loadErr |-> FALSE, saveErr |-> FALSE, score |-> 0, text |-> <<>>, parsed |-> [err |-> FALSE, move |-> ZeroMove]]

\* sync.Mutex unlocked
Free == 0

\* Iterations of one NextMove (e.iterations) where the engine is not given
\* another number.
MCTSIterations == 1

\* NewRandomEngine, NewAlphaBetaEngine, NewPersistentMCTSEngine and
\* newTDUCBEngine on a path that holds no file: the fields of a fresh
\* engine of the kind.  `file` is the file at the storage path, `tmp` the
\* one at the path with ".tmp", `writes` the number of times the former
\* was written to its end.
NewEngine(kind, storagePath) ==
  [kind |-> kind, storagePath |-> storagePath,
   Depth |-> AlphaBetaDepth, table |-> EmptyTable,
   iterations |-> MCTSIterations, knowledge |-> EmptyKnowledge, dirty |-> FALSE, rng |-> 0, file |-> NoFile, tmp |-> NoFile, writes |-> 0,
   td |-> [values |-> EmptyValues, moveStats |-> NoEntries, dirty |-> FALSE, storagePath |-> storagePath]]

\* A node that stands for nil.
NoNode == mctsNodeOf([state |-> newEmptyState(Bottom), moves |-> <<>>], ZeroMove, FALSE)

\* No call under way.
IdleProc == [pc |-> "idle", root |-> NoNode, key |-> "", rootPlayer |-> Bottom, seed |-> 0, i |-> 0, err |-> FALSE, move |-> ZeroMove, given |-> newEmptyState(Bottom), learned |-> NewEngine("", "")]

(***************************************************************************)
(* The game: moves played on the current position, and the calls of the    *)
(* legality oracle on it.  The oracle works on the position it is handed,  *)
(* whose hand maps it writes.                                              *)
(***************************************************************************)
\* Moves played from a start position.
MaxPly == 1

\* Oracle calls on one position between two moves.
MaxCalls == 1

Init ==
  \E s \in Starts :
    /\ state = s.pos
    /\ before = s.pos
    /\ ply = 0
    /\ calls = 0
    /\ fromSetup = s.setup
    /\ out = NoOut
    /\ other = s.pos
    /\ eng = [p \in Players |-> NewEngine("", "")]
    /\ engAtCall = [p \in Players |-> NewEngine("", "")]
    /\ mu = Free
    /\ procs = <<>>

\* server.handleMove: TryApplyMove with one of the legal moves, then the flip.
Play ==
  /\ ply < MaxPly
  /\ \E g \in {GenerateLegalMoves(state, state.Turn)} :
       \E i \in 1 .. Len(g.moves) :
         /\ state' = FlipTurn(tryApplyFound(state, g, i).state)
         /\ out' = [NoOut EXCEPT !.op = "play", !.player = state.Turn, !.moves = <<g.moves[i]>>]
  /\ before' = state
  /\ ply' = ply + 1
  /\ calls' = 0
  /\ UNCHANGED <<fromSetup, other, eng, engAtCall, mu, procs>>

\* GenerateLegalMoves(position, player), for either player, the keys of
\* the hand map visited in any of the orders.
QueryMoves ==
  /\ calls < MaxCalls
  /\ \E p \in Players, order \in KindOrders :
       \E g \in {GenerateLegalMovesOrd(state, p, order)} :
          /\ out' = [NoOut EXCEPT !.op = "moves", !.player = p, !.moves = g.moves]
          /\ state' = g.state
  /\ before' = state
  /\ calls' = calls + 1
  /\ UNCHANGED <<ply, fromSetup, other, eng, engAtCall, mu, procs>>

\* GenerateLegalMovesFrom(position, player, from).
QueryFrom ==
  /\ calls < MaxCalls
  /\ \E p \in Players, from \in Cells :
       \E g \in {GenerateLegalMovesFrom(state, p, from)} :
          /\ out' = [NoOut EXCEPT !.op = "from", !.player = p, !.move = BoardMove(from, from, FALSE), !.moves = g.moves]
          /\ state' = g.state
  /\ before' = state
  /\ calls' = calls + 1
  /\ UNCHANGED <<ply, fromSetup, other, eng, engAtCall, mu, procs>>

\* GenerateLegalDrops(position, player, kind).
QueryDrops ==
  /\ calls < MaxCalls
  /\ \E p \in Players, k \in PieceTypes :
       \E g \in {GenerateLegalDrops(state, p, k)} :
          /\ out' = [NoOut EXCEPT !.op = "drops", !.player = p, !.kind = k, !.moves = g.moves]
          /\ state' = g.state
  /\ before' = state
  /\ calls' = calls + 1
  /\ UNCHANGED <<ply, fromSetup, other, eng, engAtCall, mu, procs>>

\* IsCheckmate(position, player).
CallIsCheckmate ==
  /\ calls < MaxCalls
  /\ \E p \in Players :
       \E r \in {IsCheckmate(state, p)} :
          /\ out' = [NoOut EXCEPT !.op = "ischeckmate", !.player = p, !.mate = r.mate]
          /\ state' = r.state
  /\ before' = state
  /\ calls' = calls + 1
  /\ UNCHANGED <<ply, fromSetup, other, eng, engAtCall, mu, procs>>

\* CheckmateStatus(position).
CallCheckmateStatus ==
  /\ calls < MaxCalls
  /\ \E r \in {CheckmateStatus(state)} :
        /\ out' = [NoOut EXCEPT !.op = "status", !.player = state.Turn, !.mate = r.mate, !.winner = r.winner]
        /\ state' = r.state
  /\ before' = state
  /\ calls' = calls + 1
  /\ UNCHANGED <<ply, fromSetup, other, eng, engAtCall, mu, procs>>

Next == Play \/ QueryMoves \/ QueryFrom \/ QueryDrops \/ CallIsCheckmate \/ CallCheckmateStatus

Spec == Init /\ [][Next]_vars

(***************************************************************************)
(* Position keys (specification SpecKeys): two positions, `state` and      *)
(* `other`, each reached on its own from a start position by legal moves   *)
(* and by calls of the move generator, which leave keys of count 0 in the  *)
(* hand maps.                                                              *)
(***************************************************************************)
\* TestCheckmateStatusSafePosition with Top to move.
SafePositionTopToMove == FlipTurn(SafePosition)

\* TestMateSearchDropMate with a second Pawn in hand.
DropMateTwoPawns == GiveHand(DropMatePosition, Bottom, Pawn, 1)

KeyStarts == {NewGame, SafePosition, SafePositionTopToMove, DropMatePosition, DropMateTwoPawns, KingInCheckPosition}

\* Moves and generator calls on the two positions together.
MaxKeySteps == 2

KeysInit ==
  /\ state \in KeyStarts
  /\ other \in KeyStarts
  /\ before = state
  /\ ply = 0
  /\ calls = 0
  /\ fromSetup = FALSE
  /\ out = NoOut
  /\ eng = [p \in Players |-> NewEngine("", "")]
  /\ engAtCall = [p \in Players |-> NewEngine("", "")]
  /\ mu = Free
  /\ procs = <<>>

\* The positions a legal move leads to, with the flip of the side to move.
MovedFrom(pos) == {FlipTurn(tryApplyFound(pos, g, i).state) : g \in {GenerateLegalMoves(pos, pos.Turn)}, i \in RngDraws(Len(GenerateLegalMoves(pos, pos.Turn).moves))}

\* The position after GenerateLegalMoves was called on it for a player.
TouchedFrom(pos) == {GenerateLegalMoves(pos, p).state : p \in Players}

KeysPlayState ==
  /\ ply < MaxKeySteps
  /\ state' \in MovedFrom(state)
  /\ ply' = ply + 1
  /\ UNCHANGED <<before, calls, fromSetup, out, other, eng, engAtCall, mu, procs>>

KeysPlayOther ==
  /\ ply < MaxKeySteps
  /\ other' \in MovedFrom(other)
  /\ ply' = ply + 1
  /\ UNCHANGED <<state, before, calls, fromSetup, out, eng, engAtCall, mu, procs>>

KeysGenerateState ==
  /\ ply < MaxKeySteps
  /\ state' \in TouchedFrom(state)
  /\ ply' = ply + 1
  /\ UNCHANGED <<before, calls, fromSetup, out, other, eng, engAtCall, mu, procs>>

KeysGenerateOther ==
  /\ ply < MaxKeySteps
  /\ other' \in TouchedFrom(other)
  /\ ply' = ply + 1
  /\ UNCHANGED <<state, before, calls, fromSetup, out, eng, engAtCall, mu, procs>>

KeysNext == KeysPlayState \/ KeysPlayOther \/ KeysGenerateState \/ KeysGenerateOther

SpecKeys == KeysInit /\ [][KeysNext]_vars

(***************************************************************************)
(* NextMove calls of the MCTS engine, statement by statement.  The call p  *)
(* works on the instance of the side to move, eng[state.Turn]; the hand    *)
(* maps of the position it was given are those of `state`.                 *)
(***************************************************************************)
\* NextMove calls in one run.
MaxEngineCalls == 2

Engine == eng[state.Turn]

SetProc(p, rec) == procs' = [procs EXCEPT ![p] = rec]

SetEngine(rec) == eng' = [eng EXCEPT ![state.Turn] = rec]

\* newWorkerRNG that keeps the lock after the draw.
holderKeepsLock(p) == p

\* e.mu.Unlock() of newWorkerRNG: the holder of the lock after the draw.
holderAfterDraw(p) == Free

\* engine.NextMove(state): the call starts.
MCTSCall ==
  \E p \in DOMAIN procs :
    /\ procs[p].pc = "idle"
    /\ Engine.kind = "mcts"
    /\ calls < MaxEngineCalls
    /\ SetProc(p, [IdleProc EXCEPT !.pc = "legal", !.given = state, !.learned = Engine, !.rootPlayer = state.Turn])
    /\ calls' = calls + 1
    /\ out' = NoOut
    /\ UNCHANGED <<state, before, ply, fromSetup, other, eng, engAtCall, mu>>

\* mcts_engine.go 75-78: the legal moves are generated on the position the
\* call was given, whose hand maps every call shares.
MCTSLegal ==
  \E p \in DOMAIN procs :
    /\ procs[p].pc = "legal"
    /\ \E g \in {GenerateLegalMoves(state, state.Turn)} :
         /\ state' = g.state
         /\ IF Len(g.moves) = 0
            THEN SetProc(p, [procs[p] EXCEPT !.pc = "done", !.err = TRUE, !.move = ZeroMove])
            ELSE SetProc(p, [procs[p] EXCEPT !.pc = "clone"])
    /\ UNCHANGED <<before, ply, calls, fromSetup, out, other, eng, engAtCall, mu>>

\* applyMoveInPlace 323-326: the kinds of the opposing pieces a move of
\* `player` can take; the generation tries each such move on the hand maps
\* it was given (hands[player][kind]++) and undoes it.
capturable(pos, player, tx, ty) ==
  /\ pos.Board[ty][tx].Present
  /\ pos.Board[ty][tx].Owner = Opponent(player)
  /\ \E y \in Rows, x \in Cols : threatFrom(pos.Board[y][x], x, y, player, Coord(tx, ty))

capturedKinds(pos, player) ==
  {pos.Board[ty][tx].Kind : <<tx, ty>> \in {c \in Cols \X Rows : capturable(pos, player, c[1], c[2])}}

\* applyMoveInPlace 302-307: the kinds the generation tries to drop
\* (hands[player][kind]--), those taken in the tries before included.
droppedKinds(pos, player) ==
  {k \in (DOMAIN pos.Hands[player]) \cup capturedKinds(pos, player) :
     \E y \in Rows, x \in Cols : ~pos.Board[y][x].Present /\ ~(k = Pawn /\ columnHasUnpromotedPawn(pos, player, x))}

\* The kinds whose count in hands[player] GenerateLegalMoves writes.
writtenKinds(pos, player) == capturedKinds(pos, player) \cup droppedKinds(pos, player)

\* mcts_engine.go 75 in two calls at once: both generations write the
\* counts of the hand maps the calls share, without a lock.  The Go runtime
\* ends the process (fatal error: concurrent map writes), every call and
\* the lock with it, or an update is lost and a count is left one off.
MCTSConcurrentMapWrites ==
  \E p, q \in DOMAIN procs :
    /\ p < q
    /\ procs[p].pc = "legal"
    /\ procs[q].pc = "legal"
    /\ writtenKinds(state, state.Turn) # {}
    /\ \/ /\ procs' = [r \in DOMAIN procs |-> [procs[r] EXCEPT !.pc = "fatal"]]
          /\ mu' = Free
          /\ UNCHANGED state
       \/ \E k \in writtenKinds(state, state.Turn), d \in {-1, 1} :
            /\ state' = [GenerateLegalMoves(state, state.Turn).state EXCEPT !.Hands[state.Turn] = HandAdd(@, k, d)]
            /\ procs' = [procs EXCEPT ![p].pc = "clone", ![q].pc = "clone"]
            /\ UNCHANGED mu
    /\ UNCHANGED <<before, ply, calls, fromSetup, out, other, eng, engAtCall>>

\* mcts_engine.go 79-80: rootState := CloneState(state); root := newMCTSNode(rootState, nil, nil),
\* the range over the hand map of the root taking the keys in some order.
MCTSClone ==
  \E p \in DOMAIN procs :
    /\ procs[p].pc = "clone"
    /\ \E order \in KindOrders :
         SetProc(p, [procs[p] EXCEPT !.pc = "snapshot", !.root = mctsNodeOf(GenerateLegalMovesOrd(CloneState(state), state.Turn, order), ZeroMove, FALSE)])
    /\ UNCHANGED <<state, before, ply, calls, fromSetup, out, other, eng, engAtCall, mu>>

\* snapshotKnowledge 232-236: without a storage path the call returns at
\* once; else it computes the key and takes the lock.
MCTSSnapshotEnter ==
  \E p \in DOMAIN procs :
    /\ procs[p].pc = "snapshot"
    /\ IF Engine.storagePath = ""
       THEN /\ SetProc(p, [procs[p] EXCEPT !.pc = "rng", !.key = ""])
            /\ UNCHANGED mu
       ELSE /\ mu = Free
            /\ mu' = p
            /\ SetProc(p, [procs[p] EXCEPT !.pc = "snapshotLocked", !.key = encodeStateKey(procs[p].root.state)])
    /\ UNCHANGED <<state, before, ply, calls, fromSetup, out, other, eng, engAtCall>>

\* snapshotKnowledge 237-246 and applyPriorKnowledge: the entries are
\* cloned under the lock and applied to the root after the unlock.
MCTSSnapshotRead ==
  \E p \in DOMAIN procs :
    /\ procs[p].pc = "snapshotLocked"
    /\ mu = p
    /\ mu' = Free
    /\ SetProc(p, [procs[p] EXCEPT !.pc = "rng", !.root = applyPriorKnowledge(@, knowledgeEntries(Engine.knowledge, procs[p].key))])
    /\ UNCHANGED <<state, before, ply, calls, fromSetup, out, other, eng, engAtCall>>

\* newWorkerRNG 225: e.mu.Lock()
MCTSRngLock ==
  \E p \in DOMAIN procs :
    /\ procs[p].pc = "rng"
    /\ mu = Free
    /\ mu' = p
    /\ SetProc(p, [procs[p] EXCEPT !.pc = "rngLocked"])
    /\ UNCHANGED <<state, before, ply, calls, fromSetup, out, other, eng, engAtCall>>

\* newWorkerRNG 226-228: the seed of the worker source is the next value
\* of the master source; then the unlock.
MCTSRngDraw ==
  \E p \in DOMAIN procs :
    /\ procs[p].pc = "rngLocked"
    /\ mu = p
    /\ mu' = holderAfterDraw(p)
    /\ SetProc(p, [procs[p] EXCEPT !.pc = "iterate", !.seed = Engine.rng, !.i = 0])
    /\ SetEngine([Engine EXCEPT !.rng = @ + 1])
    /\ UNCHANGED <<state, before, ply, calls, fromSetup, out, other, engAtCall>>

\* rng.Intn(len(n.untried)) of expand; no draw when nothing is untried.
ExpandDraws(node) == IF Len(node.untried) > 0 THEN RngDraws(Len(node.untried)) ELSE {0}

\* mcts_engine.go 85-96: one iteration on the call's own tree.
MCTSIterate ==
  \E p \in DOMAIN procs :
    /\ procs[p].pc = "iterate"
    /\ procs[p].i < Engine.iterations
    /\ \E path \in Descents(procs[p].root) :
         \E idx \in ExpandDraws(nodeAt(procs[p].root, path)) :
           \E reward \in rolloutRewards(rolloutStart(nodeAt(procs[p].root, path), idx), procs[p].rootPlayer) :
             SetProc(p, [procs[p] EXCEPT !.root = iterateAt(@, path, idx, reward), !.i = @ + 1])
    /\ UNCHANGED <<state, before, ply, calls, fromSetup, out, other, eng, engAtCall, mu>>

\* mcts_engine.go 97-100: the most visited child of the root.
MCTSBest ==
  \E p \in DOMAIN procs :
    /\ procs[p].pc = "iterate"
    /\ procs[p].i >= Engine.iterations
    /\ \E b \in {bestChildByVisits(procs[p].root)} :
         IF b = 0
         THEN SetProc(p, [procs[p] EXCEPT !.pc = "done", !.err = TRUE, !.move = ZeroMove])
         ELSE IF ~procs[p].root.children[b].hasMove
         THEN SetProc(p, [procs[p] EXCEPT !.pc = "done", !.err = TRUE, !.move = ZeroMove])
         ELSE SetProc(p, [procs[p] EXCEPT !.pc = "update", !.move = procs[p].root.children[b].move])
    /\ UNCHANGED <<state, before, ply, calls, fromSetup, out, other, eng, engAtCall, mu>>

\* The update that does not look at the storage path.
keepsKnowledgeAlways(e) == TRUE

\* updateKnowledgeFromRoot 273-275: the knowledge is kept only with a
\* storage path.
keepsKnowledge(e) == e.storagePath # ""

\* updateKnowledgeFromRoot 273-289: without a storage path the call
\* returns at once; else the entries are built and the lock is taken.
MCTSUpdateEnter ==
  \E p \in DOMAIN procs :
    /\ procs[p].pc = "update"
    /\ IF ~keepsKnowledge(Engine)
       THEN /\ SetProc(p, [procs[p] EXCEPT !.pc = "save", !.root = NoNode])
            /\ UNCHANGED mu
       ELSE /\ mu = Free
            /\ mu' = p
            /\ SetProc(p, [procs[p] EXCEPT !.pc = "updateLocked", !.key = IF @ = "" THEN encodeStateKey(procs[p].root.state) ELSE @])
    /\ UNCHANGED <<state, before, ply, calls, fromSetup, out, other, eng, engAtCall>>

\* updateKnowledgeFromRoot 290-292
MCTSUpdateWrite ==
  \E p \in DOMAIN procs :
    /\ procs[p].pc = "updateLocked"
    /\ mu = p
    /\ mu' = Free
    /\ SetEngine([Engine EXCEPT !.knowledge = (procs[p].key :> rootEntries(procs[p].root)) @@ @, !.dirty = TRUE])
    /\ SetProc(p, [procs[p] EXCEPT !.pc = "save", !.root = NoNode, !.key = ""])
    /\ UNCHANGED <<state, before, ply, calls, fromSetup, out, other, engAtCall>>

\* SaveIfNeeded 68: e.mu.Lock()
MCTSSaveLock ==
  \E p \in DOMAIN procs :
    /\ procs[p].pc = "save"
    /\ mu = Free
    /\ mu' = p
    /\ SetProc(p, [procs[p] EXCEPT !.pc = "saveLocked"])
    /\ UNCHANGED <<state, before, ply, calls, fromSetup, out, other, eng, engAtCall>>

\* The save that does not look at the dirty flag.
saveLockedAlways(e) ==
  IF e.storagePath = "" THEN e
  ELSE [e EXCEPT !.file = FileOf(GzipBytes(encodeKnowledge(e.knowledge))), !.writes = @ + 1, !.dirty = FALSE]

\* saveLocked: the knowledge is written when there is a path and the
\* engine is dirty.
saveLocked(e) ==
  IF e.storagePath = "" \/ ~e.dirty THEN e
  ELSE [e EXCEPT !.file = FileOf(GzipBytes(encodeKnowledge(e.knowledge))), !.writes = @ + 1, !.dirty = FALSE]

\* SaveIfNeeded 69-70 and mcts_engine.go 104: the save, the unlock, the return
MCTSSave ==
  \E p \in DOMAIN procs :
    /\ procs[p].pc = "saveLocked"
    /\ mu = p
    /\ mu' = Free
    /\ SetEngine(saveLocked(Engine))
    /\ SetProc(p, [procs[p] EXCEPT !.pc = "done", !.err = FALSE])
    /\ UNCHANGED <<state, before, ply, calls, fromSetup, out, other, engAtCall>>

(***************************************************************************)
(* Engines (specification SpecEngines): each side has an engine instance   *)
(* of one kind; NextMove is called on the current position and the move    *)
(* it returns is applied, or the call is repeated on the same position.    *)
(***************************************************************************)
EngineKinds == {"random", "alphabeta", "mcts", "tducb"}

\* The storage path of a persistent engine (TestMCTSEnginePersistsKnowledge).
KnowledgePath == "mcts.json"

StoragePaths(kind) == IF kind \in {"mcts", "tducb"} THEN {"", KnowledgePath} ELSE {""}

\* TestCheckmateStatusMate with Bottom in the corner and no move left, and
\* the positions of the other tests.
EngineStarts == {NewGame, MatePosition, EscapePosition, SafePosition, DropMatePosition, KingInCheckPosition, SilverDefensePosition}

EnginesInit ==
  \E s \in EngineStarts, kind \in EngineKinds :
    \E path \in StoragePaths(kind) :
      /\ state = s
      /\ before = s
      /\ ply = 0
      /\ calls = 0
      /\ fromSetup = (s = NewGame)
      /\ out = NoOut
      /\ other = s
      /\ eng = [p \in Players |-> NewEngine(kind, path)]
      /\ engAtCall = [p \in Players |-> NewEngine(kind, path)]
      /\ mu = Free
      /\ procs = <<IdleProc>>

NoCallUnderWay == \A p \in DOMAIN procs : procs[p].pc = "idle"

\* The result of a call, as the caller sees it.
Returned(engine, r) == [NoOut EXCEPT !.op = "nextmove", !.player = state.Turn, !.engine = engine, !.err = r.err, !.move = r.move]

\* RandomEngine.NextMove(state)
CallRandom ==
  /\ Engine.kind = "random"
  /\ calls < MaxEngineCalls
  /\ NoCallUnderWay
  /\ \E r \in RandomNextMove(state) :
       /\ out' = Returned("random", r)
       /\ state' = r.state
  /\ before' = state
  /\ engAtCall' = eng
  /\ calls' = calls + 1
  /\ UNCHANGED <<ply, fromSetup, other, eng, mu, procs>>

\* AlphaBetaEngine.NextMove(state)
CallAlphaBeta ==
  /\ Engine.kind = "alphabeta"
  /\ calls < MaxEngineCalls
  /\ NoCallUnderWay
  /\ \E r \in {AlphaBetaNextMove(Engine.table, state, Engine.Depth)} :
       /\ out' = Returned("alphabeta", r)
       /\ state' = r.state
       /\ SetEngine([Engine EXCEPT !.table = r.table])
  /\ before' = state
  /\ engAtCall' = eng
  /\ calls' = calls + 1
  /\ UNCHANGED <<ply, fromSetup, other, mu, procs>>

\* TDUCBEngine.NextMove(state)
CallTDUCB ==
  /\ Engine.kind = "tducb"
  /\ calls < MaxEngineCalls
  /\ NoCallUnderWay
  /\ \E r \in TDUCBNextMove(Engine.td, state) :
       /\ out' = Returned("tducb", r)
       /\ state' = r.state
       /\ SetEngine([Engine EXCEPT !.td = r.td])
  /\ before' = state
  /\ engAtCall' = eng
  /\ calls' = calls + 1
  /\ UNCHANGED <<ply, fromSetup, other, mu, procs>>

\* MCTSEngine.NextMove(state) returns to its caller.
MCTSReturn ==
  \E p \in DOMAIN procs :
    /\ procs[p].pc = "done"
    /\ out' = Returned("mcts", procs[p])
    /\ before' = procs[p].given
    /\ engAtCall' = [eng EXCEPT ![state.Turn] = procs[p].learned]
    /\ SetProc(p, IdleProc)
    /\ UNCHANGED <<state, ply, calls, fromSetup, other, eng, mu>>

\* Moves applied in one game.
MaxEnginePly == 1

\* playSingleGame 1695-1696: game.ApplyMove(&state, mv); state.Turn = state.Turn.Opponent()
ApplyReturned ==
  /\ out.op = "nextmove"
  /\ ~out.err
  /\ ply < MaxEnginePly
  /\ state' = FlipTurn(ApplyMove(state, out.move))
  /\ out' = [out EXCEPT !.op = "applied"]
  /\ ply' = ply + 1
  /\ UNCHANGED <<before, calls, fromSetup, other, eng, engAtCall, mu, procs>>

\* The statements of a NextMove call of the MCTS engine.
MCTSStep ==
  \/ MCTSCall \/ MCTSLegal \/ MCTSClone \/ MCTSSnapshotEnter \/ MCTSSnapshotRead
  \/ MCTSRngLock \/ MCTSRngDraw \/ MCTSIterate \/ MCTSBest
  \/ MCTSUpdateEnter \/ MCTSUpdateWrite \/ MCTSSaveLock \/ MCTSSave

EnginesNext ==
  \/ CallRandom \/ CallAlphaBeta \/ CallTDUCB \/ ApplyReturned
  \/ MCTSCall \/ MCTSLegal \/ MCTSClone \/ MCTSSnapshotEnter \/ MCTSSnapshotRead
  \/ MCTSRngLock \/ MCTSRngDraw \/ MCTSIterate \/ MCTSBest
  \/ MCTSUpdateEnter \/ MCTSUpdateWrite \/ MCTSSaveLock \/ MCTSSave
  \/ MCTSReturn

SpecEngines == EnginesInit /\ [][EnginesNext]_vars

(***************************************************************************)
(* The alpha-beta engine against a player (specification SpecSearch): one  *)
(* engine instance of some Depth answers for the side that moves first,    *)
(* its table retained from call to call; its move is applied as the server *)
(* applies it, and the other side replies with any legal move.            *)
(***************************************************************************)
\* The Depth of the engine is 1 .. MaxSearchDepth.
MaxSearchDepth == 2

\* NextMove calls on the engine instance.
MaxSearchCalls == 2

\* Moves applied in the game.
MaxSearchPly == 2

SearchStarts == {EscapePosition, SafePosition, KingInCheckPosition, SilverDefensePosition, DropMatePosition}

\* The depths of the engine, from 0 (NewAlphaBetaEngine takes any int): one
\* ply more on the position of the two kings, where the search is small.
SearchDepths(s) == 0 .. (IF s = SafePosition THEN MaxSearchDepth + 1 ELSE MaxSearchDepth)

SearchInit ==
  \E s \in SearchStarts : \E d \in SearchDepths(s) :
    /\ state = s
    /\ before = s
    /\ ply = 0
    /\ calls = 0
    /\ fromSetup = FALSE
    /\ out = NoOut
    /\ other = s
    /\ eng = [p \in Players |-> [NewEngine("alphabeta", "") EXCEPT !.Depth = d]]
    /\ engAtCall = [p \in Players |-> [NewEngine("alphabeta", "") EXCEPT !.Depth = d]]
    /\ mu = Free
    /\ procs = <<IdleProc>>

\* The side the engine answers for is to move: `other` is the start.
EngineToMove == state.Turn = other.Turn

\* AlphaBetaEngine.NextMove(state); the ranges over the hand maps take the
\* keys in some order.
SearchCall ==
  /\ EngineToMove
  /\ calls < MaxSearchCalls
  /\ \E order \in KindOrders :
       \E r \in {AlphaBetaNextMoveOrd(Engine.table, state, Engine.Depth, order)} :
         /\ out' = [Returned("alphabeta", r) EXCEPT !.used = r.used, !.score = r.score]
         /\ state' = r.state
         /\ SetEngine([Engine EXCEPT !.table = r.table])
  /\ before' = state
  /\ engAtCall' = eng
  /\ calls' = calls + 1
  /\ UNCHANGED <<ply, fromSetup, other, mu, procs>>

\* The move of the engine is applied and the turn passes.
SearchApply ==
  /\ EngineToMove
  /\ out.op = "nextmove"
  /\ ~out.err
  /\ ply < MaxSearchPly
  /\ state' = FlipTurn(ApplyMove(state, out.move))
  /\ out' = [out EXCEPT !.op = "applied"]
  /\ ply' = ply + 1
  /\ UNCHANGED <<before, calls, fromSetup, other, eng, engAtCall, mu, procs>>

\* handleMove: the other side plays a move TryApplyMove accepts.
SearchReply ==
  /\ ~EngineToMove
  /\ ply < MaxSearchPly
  /\ \E g \in {GenerateLegalMoves(state, state.Turn)} :
       \E i \in 1 .. Len(g.moves) :
         state' = FlipTurn(tryApplyFound(state, g, i).state)
  /\ out' = [out EXCEPT !.op = "replied"]
  /\ ply' = ply + 1
  /\ UNCHANGED <<before, calls, fromSetup, other, eng, engAtCall, mu, procs>>

SearchNext == SearchCall \/ SearchApply \/ SearchReply

SpecSearch == SearchInit /\ [][SearchNext]_vars

(***************************************************************************)
(* The mate search (specification SpecMate): MateSearch is called on the   *)
(* positions of its tests and on the positions that moves lead to from     *)
(* them.                                                                   *)
(***************************************************************************)
\* The ply limits handed to MateSearch are -1 .. MaxMateDepth.
MaxMateDepth == 3

\* Moves played from a start position.
MaxMatePly == 1

\* MateSearch calls on the game.
MaxMateCalls == 1

\* TestMateSearchNoMateAvailable
NoMatePosition == SafePosition

\* A position with Top to move whose King has two replies, a6 and c6: after
\* a6 Bottom mates in three more plies, after c6 in one.
TwoRepliesPosition ==
  [Place(Place(Place(Place(Place(newEmptyState(Bottom), 1, 5, MkPiece(King, Top)), 1, 3, MkPiece(Gold, Bottom)), 3, 3, MkPiece(Gold, Bottom)), 0, 2, MkPiece(Silver, Bottom)), 3, 1, MkPiece(King, Bottom))
     EXCEPT !.Turn = Top]

MateStarts == {DropMatePosition, NoMatePosition, MatePosition, EscapePosition, KingInCheckPosition, SilverDefensePosition, TwoRepliesPosition}

\* The ply limits of the calls on a position: one more on the position of
\* the two replies, where the lines differ in length from four plies on.
MateDepths(pos) == -1 .. (IF pos = TwoRepliesPosition THEN MaxMateDepth + 1 ELSE MaxMateDepth)

MateInit ==
  /\ state \in MateStarts
  /\ before = state
  /\ ply = 0
  /\ calls = 0
  /\ fromSetup = FALSE
  /\ out = NoOut
  /\ other = state
  /\ eng = [p \in Players |-> NewEngine("", "")]
  /\ engAtCall = [p \in Players |-> NewEngine("", "")]
  /\ mu = Free
  /\ procs = <<IdleProc>>

\* A move TryApplyMove accepts is played.
MatePlay ==
  /\ ply < MaxMatePly
  /\ \E g \in {GenerateLegalMoves(state, state.Turn)} :
       \E i \in 1 .. Len(g.moves) :
         /\ state' = FlipTurn(tryApplyFound(state, g, i).state)
         /\ out' = [NoOut EXCEPT !.op = "play", !.player = state.Turn, !.moves = <<g.moves[i]>>]
  /\ before' = state
  /\ ply' = ply + 1
  /\ UNCHANGED <<calls, fromSetup, other, eng, engAtCall, mu, procs>>

\* MateSearch(position, attacker, depth)
CallMateSearch ==
  /\ calls < MaxMateCalls
  /\ \E attacker \in Players, depth \in MateDepths(state) :
       \E r \in {MateSearch(state, attacker, depth)} :
         /\ out' = [NoOut EXCEPT !.op = "matesearch", !.player = attacker, !.depth = depth, !.mate = r.found, !.moves = r.line]
         /\ state' = r.state
  /\ before' = state
  /\ calls' = calls + 1
  /\ UNCHANGED <<ply, fromSetup, other, eng, engAtCall, mu, procs>>

MateNext == MatePlay \/ CallMateSearch

SpecMate == MateInit /\ [][MateNext]_vars

(***************************************************************************)
(* Persistence (specification SpecStore): one persistent engine learns     *)
(* from one position, saves its knowledge, is killed while it saves, and   *)
(* is constructed again on the same path; a file that holds the same       *)
(* records in another shape can take the place of the one it wrote.        *)
(* `out.trail` lists what was done to the store since the last search,     *)
(* `engAtCall` is the engine before the last of these and `ply` counts     *)
(* them.  The TD-UCB engine runs its simulations before the store is used. *)
(***************************************************************************)
StoreKinds == {"mcts", "tducb"}

\* TestMateSearchDropMate and TestCheckmateStatusSafePosition
StoreStarts(kind) == IF kind = "mcts" THEN {DropMatePosition, SafePosition} ELSE {DropMatePosition}

\* Simulations of the TD-UCB engine in one behaviour.
MaxSimulations == 12

\* Saves, kills, constructions and replaced files in one behaviour.
MaxStoreOps == 3

StoreInit ==
  \E kind \in StoreKinds :
    \E s \in StoreStarts(kind), path \in StoragePaths(kind) :
      /\ state = s
      /\ before = s
      /\ ply = 0
      /\ calls = 0
      /\ fromSetup = FALSE
      /\ out = NoOut
      /\ other = s
      /\ eng = [p \in Players |-> NewEngine(kind, path)]
      /\ engAtCall = [p \in Players |-> NewEngine(kind, path)]
      /\ mu = Free
      /\ procs = <<IdleProc>>

Last(s) == s[Len(s)]

Did(name) == [out EXCEPT !.trail = Append(@, name)]

\* runSimulation with e.depth = 1 (part_000 230-270): the engines one
\* simulation from the root can leave.
simulateOnce(td, g) ==
  {tdUpdate(withStats(td, stateKey(g.state)), stateKey(g.state), stateValue(td, g.state), mv,
            evaluateOutcome(FlipTurn(ApplyMove(g.state, mv)), g.state.Turn)) :
     mv \in selectSimulationMove(td, stateKey(g.state), g.moves)}

\* One simulation of TDUCBEngine.NextMove(state), e.depth being 1.
StoreSimulate ==
  /\ Engine.kind = "tducb"
  /\ calls < MaxSimulations
  /\ ply = 0
  /\ \E g \in {GenerateLegalMoves(CloneState(state), state.Turn)} :
       /\ Len(g.moves) > 0
       /\ \E t \in simulateOnce(markDirty(Engine.td), g) : SetEngine([Engine EXCEPT !.td = t])
  /\ out' = [NoOut EXCEPT !.op = "simulated", !.player = state.Turn, !.engine = "tducb"]
  /\ before' = state
  /\ engAtCall' = eng
  /\ calls' = calls + 1
  /\ UNCHANGED <<state, ply, fromSetup, other, mu, procs>>

\* TDUCBEngine.SaveIfNeeded 381-399: the records go to storagePath + ".tmp",
\* which is then renamed to the storage path.
tdSaveIfNeeded(e) ==
  IF ~e.td.dirty \/ e.td.storagePath = "" THEN e
  ELSE [e EXCEPT !.file = FileOf(GzipBytes(writeKnowledge(e.td))), !.tmp = NoFile, !.writes = @ + 1, !.td.dirty = FALSE]

\* MCTSEngine.SaveIfNeeded and TDUCBEngine.SaveIfNeeded
SaveIfNeeded(e) == IF e.kind = "mcts" THEN saveLocked(e) ELSE tdSaveIfNeeded(e)

StoreSaveIfNeeded ==
  /\ NoCallUnderWay
  /\ mu = Free
  /\ ply < MaxStoreOps
  /\ SetEngine(SaveIfNeeded(Engine))
  /\ engAtCall' = eng
  /\ out' = Did("saved")
  /\ ply' = ply + 1
  /\ UNCHANGED <<state, before, calls, fromSetup, other, mu, procs>>

\* os.WriteFile and os.Create followed by the writes: the files that a
\* process killed before the close can leave at the path, from the file
\* of no bytes the open leaves, over a first part of the stream, to the
\* whole of `data`.
WrittenSoFar(data) == {FileOf(NoBytes), FileOf(Truncated(data, Len(data.lines) \div 2)), FileOf(data)}

\* saveLocked 358-374 killed at some statement: the engine's files
mctsKilled(e) ==
  {e} \cup {[e EXCEPT !.file = f] : f \in WrittenSoFar(GzipBytes(encodeKnowledge(e.knowledge)))}

\* SaveIfNeeded 387-396 killed at some statement: the engine's files
tdKilled(e) ==
  {e} \cup {[e EXCEPT !.tmp = f] : f \in WrittenSoFar(GzipBytes(writeKnowledge(e.td)))}
      \cup {[e EXCEPT !.file = FileOf(GzipBytes(writeKnowledge(e.td))), !.tmp = NoFile]}

\* NewPersistentMCTSEngine 51-66 and NewPersistentTDUCBEngine on the path
\* and the files of `e`: [err, engine], err the error that is logged.
mctsOpened(e, r) ==
  [err |-> r.err, engine |-> [NewEngine("mcts", e.storagePath) EXCEPT !.file = e.file, !.tmp = e.tmp, !.writes = e.writes, !.knowledge = r.knowledge]]

tdOpened(e, r) ==
  [err |-> r.err, engine |-> [NewEngine("tducb", e.storagePath) EXCEPT !.file = e.file, !.tmp = e.tmp, !.writes = e.writes, !.td = r.td]]

NewPersistentEngine(e) ==
  IF e.kind = "mcts" THEN mctsOpened(e, loadKnowledge(e.storagePath, EmptyKnowledge, e.file))
  ELSE tdOpened(e, tdLoadKnowledge(NewEngine("tducb", e.storagePath).td, e.file))

\* The process is killed inside the save that ends NextMove of the MCTS
\* engine (mcts_engine.go 104), and the engine is constructed again.
MCTSSaveKilled ==
  \E p \in DOMAIN procs :
    /\ procs[p].pc = "saveLocked"
    /\ mu = p
    /\ Engine.storagePath # ""
    /\ Engine.dirty
    /\ ply < MaxStoreOps
    /\ \E e \in mctsKilled(Engine) : \E r \in {NewPersistentEngine(e)} :
         /\ SetEngine(r.engine)
         /\ out' = [NoOut EXCEPT !.op = "killed", !.engine = "mcts", !.trail = <<"killed">>, !.loadErr = r.err]
    /\ mu' = Free
    /\ SetProc(p, IdleProc)
    /\ before' = procs[p].given
    /\ engAtCall' = eng
    /\ ply' = ply + 1
    /\ UNCHANGED <<state, calls, fromSetup, other>>

\* The process is killed inside TDUCBEngine.SaveIfNeeded, and the engine is
\* constructed again.
TDSaveKilled ==
  /\ Engine.kind = "tducb"
  /\ Engine.td.storagePath # ""
  /\ Engine.td.dirty
  /\ ply < MaxStoreOps
  /\ \E e \in tdKilled(Engine) : \E r \in {NewPersistentEngine(e)} :
       /\ SetEngine(r.engine)
       /\ out' = [Did("killed") EXCEPT !.op = "killed", !.loadErr = r.err]
  /\ engAtCall' = eng
  /\ ply' = ply + 1
  /\ UNCHANGED <<state, before, calls, fromSetup, other, mu, procs>>

\* A fresh engine is constructed on the path of the engine.
StoreOpen ==
  /\ NoCallUnderWay
  /\ Engine.kind \in StoreKinds
  /\ ply < MaxStoreOps
  /\ \E r \in {NewPersistentEngine(Engine)} :
       /\ SetEngine(r.engine)
       /\ out' = [Did("opened") EXCEPT !.loadErr = r.err]
  /\ engAtCall' = eng
  /\ ply' = ply + 1
  /\ UNCHANGED <<state, before, calls, fromSetup, other, mu, procs>>

\* The shapes loadKnowledge of the MCTS engine tells apart (306-316).
Shapes == {"gzip", "json", "plain"}

emptyTD == NewEngine("tducb", KnowledgePath).td

\* The records a whole file holds, as lines.
RecordsOf(kind, data) ==
  IF data.shape # "json" THEN data.lines
  ELSE IF kind = "mcts" THEN encodeKnowledge(data.states)
  ELSE writeKnowledge([emptyTD EXCEPT !.values = data.states.values, !.moveStats = data.states.moveStats])

\* The object that holds the records of the lines.
ObjectOf(kind, lines) ==
  IF kind = "mcts" THEN decodeLines(lines)
  ELSE [values |-> parseRecords(emptyTD, lines, 1).td.values, moveStats |-> parseRecords(emptyTD, lines, 1).td.moveStats]

\* The bytes that hold the records of `data` in the shape.
InShape(kind, data, shape) ==
  IF shape = "gzip" THEN GzipBytes(RecordsOf(kind, data))
  ELSE IF shape = "plain" THEN PlainBytes(RecordsOf(kind, data))
  ELSE JSONBytes(ObjectOf(kind, RecordsOf(kind, data)))

WholeFile(file) == file.exists /\ file.data.closed

\* The file at the path is replaced by one that holds the same records in
\* another shape, as an earlier version of the program wrote them.
LegacyFile ==
  /\ NoCallUnderWay
  /\ Engine.kind \in StoreKinds
  /\ WholeFile(Engine.file)
  /\ ply < MaxStoreOps
  /\ \E shape \in Shapes \ {Engine.file.data.shape} :
       SetEngine([Engine EXCEPT !.file = FileOf(InShape(Engine.kind, Engine.file.data, shape))])
  /\ out' = Did("replaced")
  /\ ply' = ply + 1
  /\ UNCHANGED <<state, before, calls, fromSetup, other, engAtCall, mu, procs>>

StoreNext ==
  \/ MCTSCall \/ MCTSLegal \/ MCTSClone \/ MCTSSnapshotEnter \/ MCTSSnapshotRead
  \/ MCTSRngLock \/ MCTSRngDraw \/ MCTSIterate \/ MCTSBest
  \/ MCTSUpdateEnter \/ MCTSUpdateWrite \/ MCTSSaveLock \/ MCTSSave
  \/ MCTSReturn
  \/ StoreSimulate \/ StoreSaveIfNeeded \/ MCTSSaveKilled \/ TDSaveKilled \/ StoreOpen \/ LegacyFile

SpecStore == StoreInit /\ [][StoreNext]_vars

(***************************************************************************)
(* A disk that fails (specification SpecDisk): the persistent engines of   *)
(* SpecStore, whose saves, inside NextMove and by SaveIfNeeded, can fail   *)
(* at the creation of the directory, at the write or at the rename.        *)
(***************************************************************************)
\* Simulations of the TD-UCB engine before its saves.
MaxDiskSimulations == 2

\* The save that clears the dirty flag though it failed.
mctsSaveFailedClean(e) == {[x EXCEPT !.dirty = FALSE] : x \in mctsKilled(e)}

\* saveLocked 358-372 returning an error: nothing was written, or
\* os.WriteFile left some part of the data at the path; e.dirty = false
\* (373) is not reached.
mctsSaveFailed(e) == mctsKilled(e)

\* SaveIfNeeded 387-396 returning an error: nothing was written, or
\* writeKnowledge left some part at the path with ".tmp", or the rename
\* failed; e.dirty = false (397) is not reached.
tdSaveFailed(e) == {e} \cup {[e EXCEPT !.tmp = f] : f \in WrittenSoFar(GzipBytes(writeKnowledge(e.td)))}

SaveFailed(e) == IF e.kind = "mcts" THEN mctsSaveFailed(e) ELSE tdSaveFailed(e)

\* mcts_engine.go 101-104: SaveIfNeeded returns an error inside NextMove;
\* the error is logged and the move is returned.
MCTSSaveFails ==
  \E p \in DOMAIN procs :
    /\ procs[p].pc = "saveLocked"
    /\ mu = p
    /\ Engine.storagePath # ""
    /\ Engine.dirty
    /\ mu' = Free
    /\ \E e \in mctsSaveFailed(Engine) : SetEngine(e)
    /\ SetProc(p, [procs[p] EXCEPT !.pc = "done", !.err = FALSE])
    /\ UNCHANGED <<state, before, ply, calls, fromSetup, out, other, engAtCall>>

\* SaveIfNeeded, called on the engine between two searches, returns an
\* error.
StoreSaveFails ==
  /\ NoCallUnderWay
  /\ mu = Free
  /\ ply < MaxStoreOps
  /\ Engine.kind \in StoreKinds
  /\ IF Engine.kind = "mcts" THEN Engine.dirty /\ Engine.storagePath # "" ELSE Engine.td.dirty /\ Engine.td.storagePath # ""
  /\ \E e \in SaveFailed(Engine) : SetEngine(e)
  /\ engAtCall' = eng
  /\ out' = [Did("savefailed") EXCEPT !.saveErr = TRUE]
  /\ ply' = ply + 1
  /\ UNCHANGED <<state, before, calls, fromSetup, other, mu, procs>>

\* A simulation of the TD-UCB engine, among the first MaxDiskSimulations.
DiskSimulate == calls < MaxDiskSimulations /\ StoreSimulate

DiskNext == MCTSStep \/ MCTSReturn \/ MCTSSaveFails \/ DiskSimulate \/ StoreSaveIfNeeded \/ StoreSaveFails

SpecDisk == StoreInit /\ [][DiskNext]_vars

(***************************************************************************)
(* Files with damaged records (specification SpecLoad): a persistent       *)
(* engine is constructed on a path that holds no file, or a gzip file of   *)
(* up to MaxRecords records, each whole or malformed.                      *)
(***************************************************************************)
MaxRecords == 3

\* Lines of the MCTS file: two that decode, a line of white space, one
\* whose visits and one whose wins do not parse (decodeKnowledge 465-476).
SampleLines ==
  {[key |-> "k1", parts |-> <<[move |-> "a1b1", visits |-> <<"2">>, wins |-> <<"1", ".", "5">>]>>],
   [key |-> "k2", parts |-> <<[move |-> "a1a2", visits |-> <<"1">>, wins |-> <<"0">>]>>],
   [key |-> "", parts |-> <<>>],
   [key |-> "k3", parts |-> <<[move |-> "a1b1", visits |-> <<"x">>, wins |-> <<"1">>]>>],
   [key |-> "k3", parts |-> <<[move |-> "a1b1", visits |-> <<"1">>, wins |-> <<"1", ".", "x">>]>>]}

\* Records of the TD-UCB file: a state and a move record that parse, a
\* state record of two fields, a move record whose visits do not parse and
\* a record of an unknown kind (parseRecord 471-500).
SampleRecords ==
  {[kind |-> tdRecordState, count |-> 3, key |-> "k1", move |-> "", visits |-> <<>>, number |-> <<"0", ".", "5">>],
   [kind |-> tdRecordMove, count |-> 5, key |-> "k1", move |-> "a1b1", visits |-> <<"2">>, number |-> <<"1">>],
   [kind |-> tdRecordState, count |-> 2, key |-> "k2", move |-> "", visits |-> <<>>, number |-> <<>>],
   [kind |-> tdRecordMove, count |-> 5, key |-> "k2", move |-> "a1a2", visits |-> <<"x">>, number |-> <<"1">>],
   [kind |-> "X", count |-> 3, key |-> "k2", move |-> "", visits |-> <<>>, number |-> <<"1">>]}

SamplesOf(kind) == IF kind = "mcts" THEN SampleLines ELSE SampleRecords

LoadFiles(kind) ==
  {NoFile} \cup {FileOf(GzipBytes(lines)) : lines \in UNION {[1 .. n -> SamplesOf(kind)] : n \in 0 .. MaxRecords}}

LoadInit ==
  \E kind \in StoreKinds : \E file \in LoadFiles(kind) :
    /\ state = SafePosition
    /\ before = SafePosition
    /\ ply = 0
    /\ calls = 0
    /\ fromSetup = FALSE
    /\ out = NoOut
    /\ other = SafePosition
    /\ eng = [p \in Players |-> [NewEngine(kind, KnowledgePath) EXCEPT !.file = file]]
    /\ engAtCall = [p \in Players |-> [NewEngine(kind, KnowledgePath) EXCEPT !.file = file]]
    /\ mu = Free
    /\ procs = <<IdleProc>>

LoadNext == StoreOpen

SpecLoad == LoadInit /\ [][LoadNext]_vars

(***************************************************************************)
(* The server (specification SpecServer).  `state` is s.game, eng[p] is    *)
(* s.engines[p] (kind "" for nil), `procs` holds the goroutines of the     *)
(* move requests and, last, the auto-play goroutine, whose pc is "auto"    *)
(* while s.auto.active.  What a handler does between s.mu.Lock() and       *)
(* s.mu.Unlock() is one step; the search of respondWithEngines runs        *)
(* between two such steps.  `ply` counts the moves applied, `calls` the    *)
(* resets, engine changes and auto-play requests, `before` is the game     *)
(* the last move was applied to.                                           *)
(***************************************************************************)
\* Move requests served at a time.
MaxRequests == 2

\* Moves applied in one behaviour.
MaxServerPly == 3

\* Resets, engine changes and auto-play requests in one behaviour.
MaxServerOps == 3

\* The engine requests are among the first MaxEngineOps of these.
MaxEngineOps == 1

Requests == 1 .. MaxRequests

AutoProc == MaxRequests + 1

\* s.auto.active
AutoActive == procs[AutoProc].pc = "auto"

\* s.engines[player] == nil
NoEngine == NewEngine("", "")

\* newEngineForMode(engineRandom): NewRandomEngine(time.Now().UnixNano()),
\* an engine that is none of those built before.
RandomEngineNo(n) == [NewEngine("random", "") EXCEPT !.rng = n]

\* New 728-755: the engine of Top is the random engine, Bottom is played
\* by requests.
ServerInit ==
  /\ state = NewGame
  /\ before = NewGame
  /\ ply = 0
  /\ calls = 0
  /\ fromSetup = TRUE
  /\ out = NoOut
  /\ other = NewGame
  /\ eng = [p \in Players |-> IF p = Top THEN RandomEngineNo(0) ELSE NoEngine]
  /\ engAtCall = [p \in Players |-> NoEngine]
  /\ mu = Free
  /\ procs = [i \in 1 .. AutoProc |-> IdleProc]

\* The moves the requests name: Sa1-a2 and b3xb4.
ServerRequests == {BoardMove(Coord(0, 0), Coord(0, 1), FALSE), BoardMove(Coord(1, 2), Coord(1, 3), FALSE)}

\* handleMove 887-927: the move of the request is applied when
\* TryApplyMove finds it legal, and respondWithEngines follows; when not,
\* the request is answered with "illegal move".
ServerMove ==
  \E p \in Requests, mv \in ServerRequests :
    /\ procs[p].pc = "idle"
    /\ ~AutoActive
    /\ ply < MaxServerPly
    /\ \E r \in {TryApplyMove(state, mv)} :
         IF r.legal
         THEN /\ state' = FlipTurn(r.state)
              /\ out' = [NoOut EXCEPT !.op = "move", !.player = state.Turn, !.move = mv]
              /\ before' = state
              /\ ply' = ply + 1
              /\ SetProc(p, [procs[p] EXCEPT !.pc = "respond"])
         ELSE /\ state' = r.state
              /\ out' = [NoOut EXCEPT !.op = "move", !.player = state.Turn, !.move = mv, !.err = TRUE]
              /\ UNCHANGED <<before, ply, procs>>
    /\ UNCHANGED <<calls, fromSetup, other, eng, engAtCall, mu>>

\* respondWithEngines 1312-1328: what the loop finds under the lock.
respondFound(p, r) ==
  IF AutoActive \/ r.mate \/ eng[state.Turn].kind = "" THEN IdleProc
  ELSE [procs[p] EXCEPT !.pc = "searching", !.rootPlayer = state.Turn, !.given = CloneState(r.state), !.learned = eng[state.Turn]]

RespondEnter ==
  \E p \in Requests :
    /\ procs[p].pc = "respond"
    /\ \E r \in {IF AutoActive THEN [mate |-> FALSE, winner |-> Bottom, state |-> state] ELSE CheckmateStatus(state)} :
         /\ state' = r.state
         /\ SetProc(p, respondFound(p, r))
    /\ UNCHANGED <<before, ply, calls, fromSetup, out, other, eng, engAtCall, mu>>

\* respondWithEngines 1330-1333: engine.NextMove(stateCopy), outside the
\* lock.
RespondSearch ==
  \E p \in Requests :
    /\ procs[p].pc = "searching"
    /\ \E r \in RandomNextMove(procs[p].given) :
         SetProc(p, IF r.err THEN IdleProc ELSE [procs[p] EXCEPT !.pc = "found", !.move = r.move, !.given = r.state])
    /\ UNCHANGED <<state, before, ply, calls, fromSetup, out, other, eng, engAtCall, mu>>

\* respondWithEngines 1336-1339
respondStale(p) == AutoActive \/ state.Turn # procs[p].rootPlayer \/ eng[procs[p].rootPlayer] # procs[p].learned

\* respondWithEngines 1335-1344: the move is applied to s.game, or the
\* loop goes round.
RespondApply ==
  \E p \in Requests :
    /\ procs[p].pc = "found"
    /\ IF respondStale(p) THEN UNCHANGED <<state, before, ply, out>>
       ELSE /\ ply < MaxServerPly
            /\ state' = FlipTurn(ApplyMove(state, procs[p].move))
            /\ before' = state
            /\ ply' = ply + 1
            /\ out' = [NoOut EXCEPT !.op = "respond", !.player = state.Turn, !.engine = "random", !.move = procs[p].move]
    /\ SetProc(p, [IdleProc EXCEPT !.pc = "respond"])
    /\ UNCHANGED <<calls, fromSetup, other, eng, engAtCall, mu>>

\* handleReset 977-984
ServerReset ==
  /\ calls < MaxServerOps
  /\ state' = NewGame
  /\ SetProc(AutoProc, IdleProc)
  /\ calls' = calls + 1
  /\ UNCHANGED <<before, ply, fromSetup, out, other, eng, engAtCall, mu>>

\* handleEngine 1055-1088, setEngine 1413-1429
ServerSetEngine ==
  /\ calls < MaxEngineOps
  /\ \E player \in Players, e \in {NoEngine, RandomEngineNo(calls + 1)} :
       /\ eng[player] # e
       /\ eng' = [eng EXCEPT ![player] = e]
  /\ calls' = calls + 1
  /\ UNCHANGED <<state, before, ply, fromSetup, out, other, engAtCall, mu, procs>>

\* handleAuto 1104-1111 with Running, startAutoPlayLocked 1454-1470
ServerAutoStart ==
  /\ calls < MaxServerOps
  /\ ~AutoActive
  /\ \A player \in Players : eng[player].kind # ""
  /\ SetProc(AutoProc, [IdleProc EXCEPT !.pc = "auto"])
  /\ calls' = calls + 1
  /\ UNCHANGED <<state, before, ply, fromSetup, out, other, eng, engAtCall, mu>>

\* handleAuto without Running, stopAutoPlayLocked 1472-1481
ServerAutoStop ==
  /\ calls < MaxServerOps
  /\ AutoActive
  /\ SetProc(AutoProc, IdleProc)
  /\ calls' = calls + 1
  /\ UNCHANGED <<state, before, ply, fromSetup, out, other, eng, engAtCall, mu>>

\* runAutoPlay 1490-1526: one tick, under the lock from end to end; the
\* engine searches s.game itself.
ServerAutoTick ==
  /\ AutoActive
  /\ \E st \in {CheckmateStatus(state)} :
       IF st.mate \/ eng[state.Turn].kind = ""
       THEN /\ state' = st.state
            /\ SetProc(AutoProc, IdleProc)
            /\ UNCHANGED <<before, ply, out>>
       ELSE \E r \in RandomNextMove(st.state) :
              IF r.err
              THEN /\ state' = r.state
                   /\ SetProc(AutoProc, IdleProc)
                   /\ UNCHANGED <<before, ply, out>>
              ELSE /\ ply < MaxServerPly
                   /\ \E after \in {FlipTurn(ApplyMove(r.state, r.move))} : state' = CheckmateStatus(after).state
                   /\ before' = r.state
                   /\ ply' = ply + 1
                   /\ out' = [NoOut EXCEPT !.op = "auto", !.player = state.Turn, !.engine = "random", !.move = r.move]
                   /\ UNCHANGED procs
  /\ UNCHANGED <<calls, fromSetup, other, eng, engAtCall, mu>>

ServerNext ==
  \/ ServerMove \/ RespondEnter \/ RespondSearch \/ RespondApply
  \/ ServerReset \/ ServerSetEngine \/ ServerAutoStart \/ ServerAutoStop \/ ServerAutoTick

SpecServer == ServerInit /\ [][ServerNext]_vars

(***************************************************************************)
(* Move notation (specification SpecNotation): FormatMove of a board move  *)
(* or a drop, and ParseMove of the text it wrote.                          *)
(***************************************************************************)
\* Every board move (source, destination, promotion flag) and every drop
\* (kind, destination).
NotationMoves ==
  {BoardMove(from, to, promote) : from \in Cells, to \in Cells, promote \in BOOLEAN}
    \cup {DropMove(kind, to) : kind \in PieceTypes, to \in Cells}

NotationInit ==
  /\ state = NewGame
  /\ before = NewGame
  /\ ply = 0
  /\ calls = 0
  /\ fromSetup = TRUE
  /\ out = NoOut
  /\ other = NewGame
  /\ eng = [p \in Players |-> NewEngine("", "")]
  /\ engAtCall = [p \in Players |-> NewEngine("", "")]
  /\ mu = Free
  /\ procs = <<>>

\* FormatMove(m)
CallFormatMove ==
  /\ out.op = "none"
  /\ \E m \in NotationMoves :
       out' = [NoOut EXCEPT !.op = "format", !.move = m, !.text = formatChars(m)]
  /\ UNCHANGED <<state, before, ply, calls, fromSetup, other, eng, engAtCall, mu, procs>>

\* ParseMove(text), the text the one FormatMove returned.
CallParseMove ==
  /\ out.op = "format"
  /\ out' = [out EXCEPT !.op = "parse", !.parsed = ParseMove(out.text)]
  /\ UNCHANGED <<state, before, ply, calls, fromSetup, other, eng, engAtCall, mu, procs>>

NotationNext == CallFormatMove \/ CallParseMove

SpecNotation == NotationInit /\ [][NotationNext]_vars

(***************************************************************************)
(* Concurrent calls (specification SpecMCTS): NumCalls goroutines call     *)
(* NextMove of one MCTS engine with the same GameState value, as           *)
(* TestMCTSEngineAllowsParallelNextMove does.                              *)
(***************************************************************************)
NumCalls == 2

MCTSInit ==
  \E s \in {NewGame, SafePosition}, path \in StoragePaths("mcts") :
    /\ state = s
    /\ before = s
    /\ ply = 0
    /\ calls = 0
    /\ fromSetup = (s = NewGame)
    /\ out = NoOut
    /\ other = s
    /\ eng = [p \in Players |-> NewEngine("mcts", path)]
    /\ engAtCall = [p \in Players |-> NewEngine("mcts", path)]
    /\ mu = Free
    /\ procs = [p \in 1 .. NumCalls |-> IdleProc]

MCTSNext == MCTSStep \/ MCTSConcurrentMapWrites

SpecMCTS == MCTSInit /\ [][MCTSNext]_vars

(***************************************************************************)
(* The search tree and what is learned from it (specification SpecTree):   *)
(* one MCTS engine, with or without a storage path, is called on a         *)
(* position, call after call; between two calls a new game can be played   *)
(* to the same position by other moves (`other`).                          *)
(***************************************************************************)
\* The iterations of the engine are 1 .. MaxTreeIterations.
MaxTreeIterations == 3

\* New games in one behaviour.
MaxTreeGames == 1

\* 1. b3xb4 Sa6-b5  2. Sa1-a2 Sb5-a6: at its second move Bottom could take
\* the Silver on b5 with the Pawn.
LineSilverOffered == <<BoardMove(Coord(1, 2), Coord(1, 3), FALSE), BoardMove(Coord(0, 5), Coord(1, 4), FALSE), BoardMove(Coord(0, 0), Coord(0, 1), FALSE), BoardMove(Coord(1, 4), Coord(0, 5), FALSE)>>

\* 1. Sa1-a2 Sa6-b5  2. b3xb4 Sb5-a6: the same cells, hands and side to
\* move, and Bottom never could take the Silver.
LineSilverNotOffered == <<BoardMove(Coord(0, 0), Coord(0, 1), FALSE), BoardMove(Coord(0, 5), Coord(1, 4), FALSE), BoardMove(Coord(1, 2), Coord(1, 3), FALSE), BoardMove(Coord(1, 4), Coord(0, 5), FALSE)>>

\* The positions of the calls, each with the position a new game reaches
\* and the most iterations of the engine on it: the fewer, the more moves
\* the nodes have.
TreeStarts ==
  { [pos |-> EscapePosition, again |-> EscapePosition, most |-> MaxTreeIterations],
    [pos |-> KingInCheckPosition, again |-> KingInCheckPosition, most |-> MaxTreeIterations],
    [pos |-> SafePosition, again |-> SafePosition, most |-> MaxTreeIterations - 1],
    [pos |-> Replay(NewGame, LineSilverOffered, 1), again |-> Replay(NewGame, LineSilverNotOffered, 1), most |-> 1] }

TreeIterations(s) == 1 .. s.most

TreeInit ==
  \E s \in TreeStarts, path \in StoragePaths("mcts") : \E n \in TreeIterations(s) :
    /\ state = s.pos
    /\ before = s.pos
    /\ ply = 0
    /\ calls = 0
    /\ fromSetup = FALSE
    /\ out = NoOut
    /\ other = s.again
    /\ eng = [p \in Players |-> [NewEngine("mcts", path) EXCEPT !.iterations = n]]
    /\ engAtCall = [p \in Players |-> [NewEngine("mcts", path) EXCEPT !.iterations = n]]
    /\ mu = Free
    /\ procs = <<IdleProc>>

\* handleReset and the moves of a new game: the position is reached again,
\* in a GameState of its own.
TreeNewGame ==
  /\ NoCallUnderWay
  /\ out.op = "nextmove"
  /\ ply < MaxTreeGames
  /\ state' = other
  /\ out' = [out EXCEPT !.op = "newgame"]
  /\ ply' = ply + 1
  /\ UNCHANGED <<before, calls, fromSetup, other, eng, engAtCall, mu, procs>>

TreeNext == MCTSStep \/ MCTSReturn \/ TreeNewGame

SpecTree == TreeInit /\ [][TreeNext]_vars

(***************************************************************************)
(* Games from the initial setup (specification SpecPieces): positions the  *)
(* initial setup leads to by legal moves, and up to MaxPiecePly moves of   *)
(* GenerateLegalMoves played on them as the server plays them.             *)
(***************************************************************************)
MaxPiecePly == 2

PieceStarts ==
  {NewGame, Replay(NewGame, LineTopChecks, 1), Replay(NewGame, LinePromotedPawn, 1), Replay(NewGame, LineOpposingPawn, 1),
   Replay(NewGame, LinePawnOnFifth, 1), Replay(NewGame, LineSilverOffered, 1)}

PieceInit ==
  \E s \in PieceStarts :
    /\ state = s
    /\ before = s
    /\ ply = 0
    /\ calls = 0
    /\ fromSetup = TRUE
    /\ out = NoOut
    /\ other = s
    /\ eng = [p \in Players |-> NewEngine("", "")]
    /\ engAtCall = [p \in Players |-> NewEngine("", "")]
    /\ mu = Free
    /\ procs = <<>>

\* server.handleMove: TryApplyMove with one of the moves of
\* GenerateLegalMoves, the keys of the hand map visited in any of the
\* orders, then the flip.
PiecePlay ==
  /\ ply < MaxPiecePly
  /\ \E order \in KindOrders : \E g \in {GenerateLegalMovesOrd(state, state.Turn, order)} :
       \E i \in 1 .. Len(g.moves) :
         /\ state' = FlipTurn(tryApplyFound(state, g, i).state)
         /\ out' = [NoOut EXCEPT !.op = "play", !.player = state.Turn, !.moves = <<g.moves[i]>>]
  /\ before' = state
  /\ ply' = ply + 1
  /\ UNCHANGED <<calls, fromSetup, other, eng, engAtCall, mu, procs>>

PieceNext == PiecePlay

SpecPieces == PieceInit /\ [][PieceNext]_vars

(***************************************************************************)
(* Properties of the rules (specification Spec).  `before` is the position *)
(* the last call was given, `out` its result.                              *)
(***************************************************************************)
OutMoves == SeqToSet(out.moves)

\* The position after `player` has made `move` on `pos`.
AppliedBy(pos, move, player) == applyMoveInPlace(pos, move, player).state

\* C1. Self-check safety: in a position reached from the initial setup by
\* legal moves, no move of GenerateLegalMoves(position, player), for either
\* player, leaves that player's king attacked once it is applied.
C1_SelfCheckSafety ==
  (fromSetup /\ out.op = "moves") =>
    \A m \in OutMoves : ~InCheck(AppliedBy(before, m, out.player), out.player)

\* C4. Hand counts are never negative in the positions reached from the
\* initial setup by moves taken from GenerateLegalMoves(state, state.Turn).
C4_HandCountsNonNegative ==
  fromSetup => \A p \in Players, k \in PieceTypes : HandGet(state.Hands[p], k) >= 0

\* C5. Every drop returned by GenerateLegalMoves or GenerateLegalDrops
\* targets an empty cell and names a kind of which the player holds at
\* least one: an entry with count 0 yields no drop.
C5_DropsComeFromTheHand ==
  out.op \in {"moves", "drops"} =>
    \A m \in OutMoves :
      m.HasDrop => /\ ~before.Board[m.To.Y][m.To.X].Present
                   /\ HandGet(before.Hands[out.player], m.Drop) >= 1

\* The file holds an unpromoted Pawn of the player.
OwnPawnOnFile(pos, player, x) ==
  \E y \in Rows :
    pos.Board[y][x] = MkPiece(Pawn, player)

\* A Pawn of the player's hand may be dropped on cell c but for the
\* two-pawns rule.
PawnDropOtherwiseLegal(pos, player, c) ==
  /\ HandGet(pos.Hands[player], Pawn) >= 1
  /\ ~pos.Board[c.Y][c.X].Present
  /\ insideBoard(Coord(c.X, c.Y + (IF player = Bottom THEN 1 ELSE -1)))
  /\ ~InCheck(AppliedBy(pos, DropMove(Pawn, c), player), player)

C7_CheckmateIff ==
  /\ out.op = "ischeckmate" =>
       (out.mate <=> (InCheck(before, out.player) /\ GenerateLegalMoves(before, out.player).moves = <<>>))
  /\ out.op = "status" =>
       /\ out.mate <=> (InCheck(before, before.Turn) /\ GenerateLegalMoves(before, before.Turn).moves = <<>>)
       /\ out.mate => out.winner = Opponent(before.Turn)

\* CheckmateStatus reported the mate of the Bottom king and named Top.
C7_Witness == out.op = "status" /\ out.mate /\ before.Turn = Bottom /\ out.winner = Top

(***************************************************************************)
(* Properties of the engines (specification SpecEngines).  `before` is the *)
(* position NextMove was given, `out` what it returned, `engAtCall` the    *)
(* engines as they were when the call started.                             *)
(***************************************************************************)
LegalBefore == GenerateLegalMoves(before, before.Turn).moves

C3_NoLegalMoveIsAnError ==
  (out.op = "nextmove" /\ LegalBefore = <<>>) =>
    /\ out.err
    /\ out.move = ZeroMove
    /\ eng = engAtCall

\* An engine was asked in a position its opponent's engine had just mated,
\* and returned the error.
C3_Witness ==
  /\ out.op = "nextmove"
  /\ out.err
  /\ LegalBefore = <<>>
  /\ ply = 1

(***************************************************************************)
(* Properties of the concurrent calls (specification SpecMCTS).  `before`  *)
(* is the position every call was given.                                   *)
(***************************************************************************)
\* The call has drawn the seed of its worker source.
HasDrawn(p) ==
  \/ procs[p].pc \in {"iterate", "update", "updateLocked", "save", "saveLocked"}
  \/ procs[p].pc = "done" /\ ~procs[p].err

\* The statements between e.mu.Lock() and e.mu.Unlock().
LockedSteps == {"snapshotLocked", "rngLocked", "updateLocked", "saveLocked"}

\* C8. Concurrent NextMove calls on one MCTS engine, given the same
\* GameState value, all complete without error and without a data race:
\* the process does not end in a fatal error, no finished call reports an
\* error, the calls draw worker seeds of their own, and no call writes to
\* the hand maps of the position it was given.
C8_ConcurrentCallsRaceFree ==
  /\ \A p \in DOMAIN procs : procs[p].pc # "fatal"
  /\ \A p \in DOMAIN procs : procs[p].pc = "done" => ~procs[p].err
  /\ \A p, q \in DOMAIN procs : (p # q /\ HasDrawn(p) /\ HasDrawn(q)) => procs[p].seed # procs[q].seed
  /\ state.Hands = before.Hands

\* C9. The engine lock is held only around the master-RNG draw, the
\* knowledge snapshot, the knowledge write-back and the save, never during
\* the iterations: whenever a call waits for the lock, its holder is a call
\* inside one of those steps and not one inside its iteration loop.
C9_LockOnlyAroundSharedAccess ==
  /\ mu = Free \/ (mu \in DOMAIN procs /\ procs[mu].pc \in LockedSteps)
  /\ \A p \in DOMAIN procs : procs[p].pc \in LockedSteps => mu = p
  /\ \A p \in DOMAIN procs : procs[p].pc = "iterate" => mu # p

\* Two calls are inside their iteration loops at once, and a third
\* statement is free to take the lock.
C9_Witness ==
  /\ mu = Free
  /\ \E p, q \in DOMAIN procs :
       /\ p # q
       /\ procs[p].pc = "iterate" /\ procs[p].i < MCTSIterations
       /\ procs[q].pc = "iterate" /\ procs[q].i < MCTSIterations

(***************************************************************************)
(* Properties of the position keys (specification SpecKeys).               *)
(***************************************************************************)
\* Same 30 cells, same hand count of every kind for both players (a kind
\* absent from a hand map counting as 0), same side to move.
SamePosition(a, b) ==
  /\ a.Board = b.Board
  /\ a.Turn = b.Turn
  /\ \A p \in Players, k \in PieceTypes : HandGet(a.Hands[p], k) = HandGet(b.Hands[p], k)

\* C10. Position keys are deterministic and injective: makeStateKey (for
\* a fixed maximizer), the TD-UCB stateKey and the MCTS encodeStateKey each
\* give equal keys for two positions iff the positions have the same
\* cells, hand counts and side to move, however they were reached.
C10_KeysInjective ==
  /\ \A m \in Players : (makeStateKey(state, m) = makeStateKey(other, m)) <=> SamePosition(state, other)
  /\ (stateKey(state) = stateKey(other)) <=> SamePosition(state, other)
  /\ (encodeStateKey(state) = encodeStateKey(other)) <=> SamePosition(state, other)

\* Two positions with the same cells, counts and side to move whose hand
\* maps differ in their entries of count 0, and whose keys are equal.
C10_Witness ==
  /\ SamePosition(state, other)
  /\ state.Hands # other.Hands
  /\ encodeStateKey(state) = encodeStateKey(other)
  /\ stateKey(state) = stateKey(other)
  /\ makeStateKey(state, Bottom) = makeStateKey(other, Bottom)


(***************************************************************************)
(* Properties of the alpha-beta search (specification SpecSearch).         *)
(***************************************************************************)
\* C11. A NextMove call returns the score of a remembered entry, at the
\* root or at any node below it, only when the entry was stored with a
\* depth at least the depth requested at that node.
C11_NoShallowEntryIsUsed == \A h \in out.used : h.entryDepth >= h.depth

\* The table held an entry for the position of the call that was stored
\* with a smaller depth than the engine's; the call returned a move, and
\* below the root it returned the scores of remembered entries.
C11_Witness ==
  /\ out.op = "nextmove"
  /\ ~out.err
  /\ out.used # {}
  /\ makeStateKey(before, before.Turn) \in DOMAIN engAtCall[before.Turn].table
  /\ engAtCall[before.Turn].table[makeStateKey(before, before.Turn)].depth < engAtCall[before.Turn].Depth

\* The score of the move legal[i] at the root of a search to `depth`: the
\* value search gives the position after the move with the whole window.
rootScore(g, i, depth) ==
  searchOrd(EmptyTable, searchChild(g.state, g.moves[i]), depth - 1, 0 - infiniteScore, infiniteScore, g.state.Turn, DefaultOrder).score

\* The pairs <<i, score of legal[i]>>.
rootScores(g, depth) == {<<i, rootScore(g, i, depth)>> : i \in 1 .. Len(g.moves)}

bestOf(g, scores) == {g.moves[p[1]] : p \in {q \in scores : \A r \in scores : r[2] <= q[2]}}

bestAfter(g, depth) == bestOf(g, rootScores(g, depth))

\* The moves of the best score for the side to move.
BestMoves(pos, depth) == bestAfter(GenerateLegalMoves(pos, pos.Turn), depth)

\* C12. Minimax determinism: when the position a NextMove call was given
\* has a unique best move by score at the engine's Depth, the call returns
\* that move, whatever the order in which the hand maps were ranged over
\* and whether the table of the instance was fresh or retained from
\* earlier calls.
C12_UniqueBestMoveIsReturned ==
  (out.op = "nextmove" /\ ~out.err)
    => \A best \in {BestMoves(before, engAtCall[before.Turn].Depth)} : Cardinality(best) = 1 => out.move \in best

\* A second call on an instance whose table is retained returned the
\* unique best move of a position whose mover can drop two kinds.
C12_Witness ==
  /\ out.op = "nextmove"
  /\ ~out.err
  /\ calls = 2
  /\ engAtCall[before.Turn].table # EmptyTable
  /\ Cardinality({m.Drop : m \in {d \in SeqToSet(GenerateLegalMoves(before, before.Turn).moves) : d.HasDrop}}) >= 2
  /\ \E best \in {BestMoves(before, engAtCall[before.Turn].Depth)} : Cardinality(best) = 1 /\ out.move \in best

(***************************************************************************)
(* Properties of the mate search (specification SpecMate).                 *)
(***************************************************************************)
\* The moves the side to move may play: the board moves of
\* GenerateLegalMoves and the drops of the kinds it holds.
LegalByTheRules(pos) ==
  {m \in SeqToSet(GenerateLegalMoves(pos, pos.Turn).moves) : m.HasDrop => HandGet(pos.Hands[pos.Turn], m.Drop) > 0}

AfterMove(pos, mv) == FlipTurn(ApplyMove(CloneState(pos), mv))

\* The side to move is in check and has no move.
Mated(pos) == InCheck(pos, pos.Turn) /\ LegalByTheRules(pos) = {}

\* The attacker can force checkmate within n plies.
RECURSIVE ForcedMate(_, _, _)
ForcedMate(pos, attacker, n) ==
  /\ n > 0
  /\ IF pos.Turn = attacker
     THEN \E mv \in LegalByTheRules(pos) : Mated(AfterMove(pos, mv)) \/ ForcedMate(AfterMove(pos, mv), attacker, n - 1)
     ELSE \/ Mated(pos)
          \/ /\ LegalByTheRules(pos) # {}
             /\ \A mv \in LegalByTheRules(pos) : ForcedMate(AfterMove(pos, mv), attacker, n - 1)

\* C13. MateSearch(position, attacker, n) returns true exactly when the
\* attacker can force checkmate within n plies whatever the defender
\* replies.
C13_MateSearchIffForcedMate ==
  out.op = "matesearch" => (out.mate <=> ForcedMate(before, out.player, out.depth))

\* The moves after which the side that follows is checkmated.
MatingMoves(pos) == {mv \in LegalByTheRules(pos) : Mated(AfterMove(pos, mv))}

\* C14. When the attacker is to move and has a move that checkmates the
\* defender, MateSearch with one ply returns true with a line of exactly
\* one move, and that move checkmates the defender.
C14_MateInOneIsFound ==
  (out.op = "matesearch" /\ out.depth = 1 /\ before.Turn = out.player /\ MatingMoves(before) # {})
    => /\ out.mate
       /\ Len(out.moves) = 1
       /\ Mated(AfterMove(before, out.moves[1]))

\* The attacker had a mating move, the drop of a Pawn among them, and the
\* search with one ply returned a mating move.
C14_Witness ==
  /\ out.op = "matesearch"
  /\ out.depth = 1
  /\ before.Turn = out.player
  /\ \E m \in MatingMoves(before) : m.HasDrop /\ m.Drop = Pawn
  /\ out.mate
  /\ Len(out.moves) = 1
  /\ out.moves[1] \in MatingMoves(before)

\* C15. With a ply limit of zero or less MateSearch returns false and no
\* line.
C15_NoPliesNoMate ==
  (out.op = "matesearch" /\ out.depth <= 0) => (~out.mate /\ out.moves = <<>>)

\* The limit was not positive and the attacker had a mating move.
C15_Witness ==
  /\ out.op = "matesearch"
  /\ out.depth <= 0
  /\ before.Turn = out.player
  /\ MatingMoves(before) # {}
  /\ ~out.mate

(***************************************************************************)
(* The in-place path of the legality oracle (specification Spec).          *)
(***************************************************************************)
\* appendLegalMovesForPiece 390-405: the board moves the generation tries
\* for the piece on `from`, the rejected ones included.
TriedFrom(pos, player, from) ==
  {BoardMove(from, to, promote) :
     <<to, promote>> \in {c \in {Coord(from.X + d.X, from.Y + d.Y) : d \in SeqToSet(movementOffsets(pos.Board[from.Y][from.X]))} \X BOOLEAN :
                            /\ insideBoard(c[1])
                            /\ ~(pos.Board[c[1].Y][c[1].X].Present /\ pos.Board[c[1].Y][c[1].X].Owner = player)
                            /\ c[2] => canPromote(pos.Board[from.Y][from.X], c[1].Y)}}

\* appendLegalDrops 427-432: the drops the generation tries, of every key
\* the hand map has when the drop loop starts.
TriedDrops(pos, player) ==
  {DropMove(k, Coord(x, y)) :
     <<k, x, y>> \in {c \in ((DOMAIN pos.Hands[player]) \cup capturedKinds(pos, player)) \X Cols \X Rows :
                        /\ ~pos.Board[c[3]][c[2]].Present
                        /\ ~(c[1] = Pawn /\ columnHasUnpromotedPawn(pos, player, c[2]))}}

TriedMoves(pos, player) ==
  TriedDrops(pos, player)
    \cup UNION {TriedFrom(pos, player, Coord(x, y)) :
                 <<x, y>> \in {c \in Cols \X Rows : pos.Board[c[2]][c[1]].Present /\ pos.Board[c[2]][c[1]].Owner = player}}

\* The same board cells and the same hand counts.
SameCellsAndCounts(a, b) ==
  /\ a.Board = b.Board
  /\ \A p \in Players, k \in PieceTypes : HandGet(a.Hands[p], k) = HandGet(b.Hands[p], k)

ApplyInPlaceAgrees(pos, mv, r) ==
  /\ SameCellsAndCounts(r.state, ApplyMove(CloneState(pos), mv))
  /\ SameCellsAndCounts(undoMove(r.state, r.diff), pos)

\* C16. For every move the generation tries for the side to move,
\* applyMoveInPlace gives the board cells and hand counts of CloneState
\* followed by ApplyMove, and undoMove with the diff gives back the board
\* cells and hand counts that held before.
C16_InPlaceEqualsCloneApply ==
  \A mv \in TriedMoves(state, state.Turn) : ApplyInPlaceAgrees(state, mv, applyMoveInPlace(state, mv, state.Turn))

\* The generation ran for the side to move on a position where it tries a
\* promoting capture, a plain move and a drop.
C16_Witness ==
  /\ out.op = "moves"
  /\ out.player = state.Turn
  /\ \E mv \in TriedMoves(state, state.Turn) : mv.HasFrom /\ mv.Promote /\ state.Board[mv.To.Y][mv.To.X].Present
  /\ \E mv \in TriedMoves(state, state.Turn) : mv.HasFrom /\ ~mv.Promote /\ ~state.Board[mv.To.Y][mv.To.X].Present
  /\ \E mv \in TriedMoves(state, state.Turn) : mv.HasDrop /\ HandGet(state.Hands[state.Turn], mv.Drop) > 0
  /\ SeqToSet(out.moves) \subseteq TriedMoves(state, state.Turn)

(***************************************************************************)
(* Properties of the store (specification SpecStore).                      *)
(***************************************************************************)
\* The file a save of the engine leaves at the storage path.
SavedFile(e) == SaveIfNeeded(e).file

LastDone(name) == out.trail # <<>> /\ Last(out.trail) = name

SavedThenOpened == Len(out.trail) >= 2 /\ SubSeq(out.trail, Len(out.trail) - 1, Len(out.trail)) = <<"saved", "opened">>

\* C17: when the process is killed at any step of a save of a persistent
\* engine, the file at the storage path holds the complete content it held
\* before the save or the complete content the save writes.
C17_KilledSaveLeavesOldOrNew ==
  LastDone("killed") => Engine.file \in {engAtCall[state.Turn].file, SavedFile(engAtCall[state.Turn])}

\* C18: after NextMove(P) of an MCTS engine with a storage path and
\* SaveIfNeeded, a fresh engine constructed on the path holds for the key
\* of P the entries the first engine held, and they are not empty.
C18_KnowledgeRoundTrip ==
  (out.op = "nextmove" /\ ~out.err /\ out.engine = "mcts" /\ Engine.storagePath # "" /\ out.trail = <<"saved", "opened">>)
    => /\ knowledgeEntries(Engine.knowledge, encodeStateKey(before)) = knowledgeEntries(engAtCall[state.Turn].knowledge, encodeStateKey(before))
       /\ knowledgeEntries(Engine.knowledge, encodeStateKey(before)) # NoEntries

C18_Witness ==
  /\ out.op = "nextmove" /\ ~out.err /\ out.engine = "mcts" /\ Engine.storagePath # ""
  /\ out.trail = <<"saved", "opened">>
  /\ calls = 2
  /\ Cardinality(DOMAIN knowledgeEntries(engAtCall[state.Turn].knowledge, encodeStateKey(before))) >= 2
  /\ knowledgeEntries(Engine.knowledge, encodeStateKey(before)) = knowledgeEntries(engAtCall[state.Turn].knowledge, encodeStateKey(before))

\* TestTDUCBEngineSaveLoadPlainText: 1e-9
tdTolerance == 1

tdClose(a, b) == a - b <= tdTolerance /\ b - a <= tdTolerance

moveStatClose(moveStats, key, mv, stat) ==
  /\ key \in DOMAIN moveStats
  /\ mv \in DOMAIN moveStats[key]
  /\ moveStats[key][mv].visits = stat.visits
  /\ tdClose(moveStats[key][mv].total, stat.total)

\* C19: after SaveIfNeeded of a TD-UCB engine, a fresh engine constructed
\* on the path holds for every recorded state key a value within 1e-9 of
\* the saved one, and for every recorded (state, move) pair with visits the
\* same visit count and a total within 1e-9.
C19_ValuesRoundTrip ==
  (Engine.kind = "tducb" /\ Engine.storagePath # "" /\ SavedThenOpened)
    => /\ \A key \in DOMAIN engAtCall[state.Turn].td.values :
            key \in DOMAIN Engine.td.values /\ tdClose(Engine.td.values[key], engAtCall[state.Turn].td.values[key])
       /\ \A pair \in visitedPairs(engAtCall[state.Turn].td.moveStats) :
            moveStatClose(Engine.td.moveStats, pair[1], pair[2], engAtCall[state.Turn].td.moveStats[pair[1]][pair[2]])

\* What an engine has loaded.
Loaded(e) == IF e.kind = "mcts" THEN e.knowledge ELSE [values |-> e.td.values, moveStats |-> e.td.moveStats]

\* C20: the loader of each persistent engine accepts a whole file in any
\* of the three shapes (gzip, JSON object, plain lines), and loads from it
\* what it loads from the gzip file of the same records.
C20_EveryShapeLoads ==
  (LastDone("opened") /\ Engine.storagePath # "" /\ WholeFile(Engine.file))
    => /\ ~out.loadErr
       /\ Loaded(Engine) = Loaded(NewPersistentEngine([Engine EXCEPT !.file = FileOf(InShape(Engine.kind, Engine.file.data, "gzip"))]).engine)

\* The shape of a text: file, rank, file, rank and "+" when promoting, or
\* the letter of the kind, "@", file, rank.
isFile(ch) == \E i \in 1 .. Len(FileLetters) : FileLetters[i] = ch

isRank(ch) == \E i \in 1 .. Len(RankDigits) : RankDigits[i] = ch

boardShape(cs, promote) ==
  /\ Len(cs) = (IF promote THEN 5 ELSE 4)
  /\ isFile(cs[1]) /\ isRank(cs[2]) /\ isFile(cs[3]) /\ isRank(cs[4])
  /\ promote => cs[5] = "+"

dropShape(cs) ==
  /\ Len(cs) = 4
  /\ cs[1] \in {"K", "G", "S", "P"} /\ cs[2] = "@" /\ isFile(cs[3]) /\ isRank(cs[4])

\* C23: the move notation is canonical and reversible.  FormatMove writes
\* file-rank-file-rank with a trailing "+" when promoting, or
\* LETTER@file-rank for a drop; no other move of the notation is written
\* as the same string; and ParseMove of the text gives the move back.
C23_NotationRoundTrip ==
  /\ out.op \in {"format", "parse"} =>
       /\ IF out.move.HasDrop THEN dropShape(out.text) ELSE boardShape(out.text, out.move.Promote)
       /\ \A m \in NotationMoves : FormatMove(m) = FormatMove(out.move) => m = out.move
  /\ out.op = "parse" => ~out.parsed.err /\ out.parsed.move = out.move

\* A promoting board move has been written and read back.
C23_Witness ==
  /\ out.op = "parse"
  /\ out.move = BoardMove(Coord(1, 3), Coord(1, 4), TRUE)
  /\ out.text = <<"b", "4", "b", "5", "+">>
  /\ out.parsed.move.Promote

isDirty(e) == IF e.kind = "mcts" THEN e.dirty ELSE e.td.dirty

SavedTwice == Len(out.trail) >= 2 /\ SubSeq(out.trail, Len(out.trail) - 1, Len(out.trail)) = <<"saved", "saved">>

\* C21: SaveIfNeeded of the MCTS and of the TD-UCB engine writes the file
\* only when the engine is dirty and has a storage path; after it the
\* engine is not dirty, and a second SaveIfNeeded with no NextMove in
\* between writes nothing and leaves the file and the engine as they were.
C21_SaveOnlyWhenDirty ==
  LastDone("saved") =>
    /\ ~isDirty(Engine)
    /\ IF isDirty(engAtCall[state.Turn]) /\ engAtCall[state.Turn].storagePath # ""
       THEN Engine.writes = engAtCall[state.Turn].writes + 1 /\ WholeFile(Engine.file)
       ELSE Engine = engAtCall[state.Turn]
    /\ SavedTwice => Engine = engAtCall[state.Turn]

\* SaveIfNeeded wrote the file, and a second SaveIfNeeded followed.
C21_Witness ==
  /\ SavedTwice
  /\ Engine.kind = "tducb"
  /\ Engine.writes = 1
  /\ WholeFile(Engine.file)
  /\ Engine.file.data.lines # <<>>

\* C22: an engine constructed without a storage path has no file read or
\* written and is never dirty, whatever NextMove and SaveIfNeeded calls
\* are made; the MCTS engine then holds no knowledge entry.
C22_NoPathNoFile ==
  \A p \in Players :
    eng[p].storagePath = "" =>
      /\ ~eng[p].file.exists /\ ~eng[p].tmp.exists /\ eng[p].writes = 0
      /\ ~eng[p].dirty /\ ~eng[p].td.dirty
      /\ eng[p].kind = "mcts" => eng[p].knowledge = EmptyKnowledge

\* NextMove of an MCTS engine without a storage path has returned a move
\* and SaveIfNeeded was called.
C22_Witness ==
  /\ Engine.kind = "mcts"
  /\ Engine.storagePath = ""
  /\ calls >= 1
  /\ NoCallUnderWay
  /\ out.trail = <<"saved">>

(***************************************************************************)
(* Properties of the generation (specification Spec): the position the     *)
(* call was made on is `before`, the moves it returned are out.moves.      *)
(***************************************************************************)
\* C24: GenerateLegalMoves, GenerateLegalMovesFrom and GenerateLegalDrops
\* return with the position they were given as it was on entry: the same
\* board cells, the same side to move and the same hand maps (the same
\* entries with the same counts).
C24_GenerationLeavesPosition ==
  out.op \in {"moves", "from", "drops"} =>
    /\ state.Board = before.Board
    /\ state.Turn = before.Turn
    /\ \A p \in Players :
         /\ DOMAIN state.Hands[p] = DOMAIN before.Hands[p]
         /\ \A k \in DOMAIN state.Hands[p] : state.Hands[p][k] = before.Hands[p][k]

Offered == SeqToSet(out.moves)

Twin(m, promote) == [m EXCEPT !.Promote = promote]

MovedPiece(m) == before.Board[m.From.Y][m.From.X]

Promotable(piece) == piece.Present /\ ~piece.Promoted /\ piece.Kind \in {Silver, Pawn}

\* The last two ranks on the far side of the owner.
InZone(piece, c) == c.Y \in (IF piece.Owner = Bottom THEN {BoardRows - 2, BoardRows - 1} ELSE {0, 1})

TouchesZone(m) == InZone(MovedPiece(m), m.From) \/ InZone(MovedPiece(m), m.To)

\* C25: for an unpromoted Silver or Pawn the promoting variant of a board
\* move is offered, next to the non-promoting one, whenever the source or
\* the destination lies in the owner's promotion zone, and no promoting
\* variant is offered for any other piece or move.
C25_PromotionOffered ==
  out.op \in {"moves", "from"} =>
    \A m \in Offered :
      m.HasFrom =>
        /\ (~m.Promote /\ Promotable(MovedPiece(m)) /\ TouchesZone(m)) => Twin(m, TRUE) \in Offered
        /\ m.Promote => Promotable(MovedPiece(m)) /\ TouchesZone(m)

\* C26 as stated: promotion is never forced: for every promoting board
\* move GenerateLegalMoves returns, it returns the same move without the
\* promotion, a Pawn moving onto the farthest rank included.
C26_PromotionNeverForced ==
  out.op = "moves" =>
    \A m \in Offered : (m.HasFrom /\ m.Promote) => Twin(m, FALSE) \in Offered

FarthestRank(player) == IF player = Bottom THEN BoardRows - 1 ELSE 0

PawnOntoFarthestRank(m) == MovedPiece(m).Kind = Pawn /\ m.To.Y = FarthestRank(MovedPiece(m).Owner)

\* C26 amended: for every promoting board move GenerateLegalMoves returns,
\* it returns the same move without the promotion, except for a Pawn
\* moving onto the farthest rank, which is returned promoting only.
C26_PromotionForcedOnlyOnFarthestRank ==
  out.op = "moves" =>
    \A m \in Offered :
      (m.HasFrom /\ m.Promote) => (Twin(m, FALSE) \in Offered <=> ~PawnOntoFarthestRank(m))

\* The Pawn on b5 takes on b6: the move is returned promoting, and not
\* otherwise.
C26_Witness ==
  /\ out.op = "moves"
  /\ fromSetup
  /\ BoardMove(Coord(1, 4), Coord(1, 5), TRUE) \in Offered
  /\ BoardMove(Coord(1, 4), Coord(1, 5), FALSE) \notin Offered
  /\ before.Board[4][1] = MkPiece(Pawn, Bottom)

\* Some offset of the piece leads from the cell to a cell of the board.
HasWhereToGo(piece, c) ==
  \E i \in 1 .. Len(movementOffsets(piece)) :
    Coord(c.X + movementOffsets(piece)[i].X, c.Y + movementOffsets(piece)[i].Y) \in Cells

\* C27: in a position reached from the initial setup by legal moves no
\* piece is stranded: no unpromoted Bottom Pawn stands on rank 6 and no
\* unpromoted Top Pawn on rank 1, by a move or by a drop.
C27_NoStrandedPiece ==
  fromSetup =>
    /\ \A x \in Cols : state.Board[BoardRows - 1][x] # MkPiece(Pawn, Bottom) /\ state.Board[0][x] # MkPiece(Pawn, Top)
    /\ \A c \in Cells : state.Board[c.Y][c.X].Present => HasWhereToGo(state.Board[c.Y][c.X], c)

\* A Bottom Pawn has moved onto rank 6, and stands there promoted.
C27_Witness ==
  /\ fromSetup
  /\ out.op = "play"
  /\ out.moves = <<BoardMove(Coord(1, 4), Coord(1, 5), TRUE)>>
  /\ before.Board[4][1] = MkPiece(Pawn, Bottom)
  /\ state.Board[5][1] = MkPromoted(Pawn, Bottom)

(***************************************************************************)
(* Properties of the line MateSearch returns (specification SpecMate):     *)
(* the call was made on `before`, out.moves is the line.                   *)
(***************************************************************************)
\* The position after the first i moves of the line.
RECURSIVE AfterLine(_, _, _)
AfterLine(pos, line, i) == IF i = 0 THEN pos ELSE AfterMove(AfterLine(pos, line, i - 1), line[i])

\* Every move of the line is one the side to move may play where it is played.
LineIsLegal(pos, line) == \A i \in 1 .. Len(line) : line[i] \in LegalByTheRules(AfterLine(pos, line, i - 1))

\* C29: when MateSearch(position, attacker, n) returns true, the line has
\* at most n moves, each move is legal for the side to move where it is
\* played, the defender is checkmated after the last move, and the line
\* is empty only when the defender is checkmated in the position given.
C29_ReturnedLineMates ==
  (out.op = "matesearch" /\ out.mate) =>
    /\ Len(out.moves) <= out.depth
    /\ LineIsLegal(before, out.moves)
    /\ AfterLine(before, out.moves, Len(out.moves)).Turn = Opponent(out.player)
    /\ Mated(AfterLine(before, out.moves, Len(out.moves)))

\* The line the defender's loop finds for its i-th reply (game.go 665-670).
ReplyLine(g, i, attacker, depth) ==
  <<g.moves[i]>> \o mateSearch(mateNext(g.state, g.moves[i]), attacker, Opponent(attacker), depth - 1).line

\* The call was made with the defender to move and returned true.
DefenderCall == out.op = "matesearch" /\ out.mate /\ before.Turn # out.player /\ Len(out.moves) > 0

\* C28: on the defender's turn, when every legal reply leads to a forced
\* mate, the line returned is the shortest of the lines found over the
\* replies: no reply's line is shorter than the returned one.
C28_ShortestLineReturned ==
  DefenderCall =>
    \A g \in {GenerateLegalMoves(before, before.Turn)} :
      \A i \in 1 .. Len(g.moves) : Len(out.moves) <= Len(ReplyLine(g, i, out.player, out.depth))

(***************************************************************************)
(* Properties of the root score (specification SpecSearch).                *)
(***************************************************************************)
bestValue(vals, maximizing) == CHOOSE v \in vals : \A w \in vals : IF maximizing THEN w <= v ELSE w >= v

\* The full-width minimax value of the position at the depth, from the
\* side of the maximizer: every legal move of every node is searched, and
\* no score is remembered.
RECURSIVE Minimax(_, _, _)
minimaxOver(g, depth, maximizer) ==
  IF Len(g.moves) = 0 THEN evaluate(g.state, maximizer, depth)
  ELSE bestValue({Minimax(searchChild(g.state, g.moves[i]), depth - 1, maximizer) : i \in 1 .. Len(g.moves)}, g.state.Turn = maximizer)

Minimax(pos, depth, maximizer) ==
  IF depth = 0 THEN evaluate(pos, maximizer, 0)
  ELSE minimaxOver(GenerateLegalMoves(pos, pos.Turn), depth, maximizer)

FreshCall == out.op = "nextmove" /\ ~out.err /\ engAtCall[before.Turn].table = EmptyTable

TableUsedAgain ==
  /\ FreshCall
  /\ engAtCall[before.Turn].Depth = 3
  /\ out.used # {}

(***************************************************************************)
(* The depths of the alpha-beta engine (specification SpecSearch).         *)
(***************************************************************************)
\* C31: for every Depth NewAlphaBetaEngine accepts, 0 included, NextMove
\* on a position with at least one legal move returns, without error, one
\* of the moves GenerateLegalMoves returns for the position.
C31_EveryDepthReturnsMove ==
  (out.op = "nextmove" /\ Len(GenerateLegalMoves(before, before.Turn).moves) > 0) =>
    /\ ~out.err
    /\ out.move \in SeqToSet(GenerateLegalMoves(before, before.Turn).moves)

(***************************************************************************)
(* Properties of the search tree (specification SpecTree).  Rewards and    *)
(* win totals are in half points.                                          *)
(***************************************************************************)
\* The visits of the first n children of the node, added up.
RECURSIVE visitsOfChildren(_, _)
visitsOfChildren(node, n) == IF n = 0 THEN 0 ELSE visitsOfChildren(node, n - 1) + node.children[n].visits

\* The counts of a node below the root and of all nodes below it: the
\* node was rolled out when it was made, and every later iteration through
\* it went on to one child, or rolled it out again where it has no move.
RECURSIVE WellCounted(_)
WellCounted(node) ==
  /\ node.visits >= 1
  /\ 0 <= node.wins /\ node.wins <= 2 * node.visits
  /\ (Len(node.untried) > 0 \/ Len(node.children) > 0) => node.visits = 1 + visitsOfChildren(node, Len(node.children))
  /\ \A c \in 1 .. Len(node.children) : WellCounted(node.children[c])

\* The root after k iterations.
RootWellCounted(root, k) ==
  /\ root.visits = k
  /\ root.visits = visitsOfChildren(root, Len(root.children))
  /\ 0 <= root.wins /\ root.wins <= 2 * root.visits
  /\ \A c \in 1 .. Len(root.children) : WellCounted(root.children[c])

\* From `old` to `new` one visit and the reward r were added to the nodes
\* of one path from the root down to a node that was rolled out, a new
\* last child or a node without untried moves and children, and nothing
\* else changed.
RECURSIVE OnePath(_, _, _)
OnePath(old, new, r) ==
  /\ new.visits = old.visits + 1
  /\ new.wins = old.wins + r
  /\ new.state = old.state /\ new.hasMove = old.hasMove /\ new.move = old.move
  /\ \/ /\ Len(old.untried) = 0 /\ Len(old.children) = 0
        /\ new.untried = old.untried /\ new.children = old.children
     \/ /\ Len(old.untried) > 0
        /\ Len(new.untried) = Len(old.untried) - 1
        /\ Len(new.children) = Len(old.children) + 1
        /\ \A c \in 1 .. Len(old.children) : new.children[c] = old.children[c]
        /\ new.children[Len(new.children)].visits = 1
        /\ new.children[Len(new.children)].wins = r
        /\ new.children[Len(new.children)].children = <<>>
     \/ /\ Len(old.untried) = 0 /\ Len(old.children) > 0
        /\ new.untried = old.untried
        /\ Len(new.children) = Len(old.children)
        /\ \E c \in 1 .. Len(old.children) :
             /\ OnePath(old.children[c], new.children[c], r)
             /\ \A d \in 1 .. Len(old.children) : d # c => new.children[d] = old.children[d]

\* The call p found no entries for its root when it took its snapshot.
NoPrior(p) == procs[p].learned.storagePath = "" \/ knowledgeEntries(procs[p].learned.knowledge, encodeStateKey(procs[p].given)) = NoEntries

\* The call p is in its loop, after procs[p].i iterations.
InLoop(p) == procs[p].pc = "iterate"

TreeCounts == \A p \in DOMAIN procs : (InLoop(p) /\ NoPrior(p)) => RootWellCounted(procs[p].root, procs[p].i)

IterationAddsOnePath ==
  \A p \in DOMAIN procs :
    (InLoop(p) /\ procs'[p].pc = "iterate" /\ procs'[p].i = procs[p].i + 1) =>
      \E r \in {0, 1, 2} : OnePath(procs[p].root, procs'[p].root, r)

\* C32: in an MCTS NextMove without prior knowledge, after k iterations
\* the root has k visits, as many as its children together; every node
\* has as many visits as iterations passed through it and a win total
\* from 0 to its visits; and an iteration adds one visit and one reward
\* (1, 0 or 0.5) to every node of the path from the rolled-out node to
\* the root and changes no other node.
C32_TreeCountsIterations == []TreeCounts /\ [][IterationAddsOnePath]_vars

\* Three iterations were made from a root with one move: the second and
\* the third went through the child of the root to a node below it.
C32_Witness ==
  \E p \in DOMAIN procs :
    /\ InLoop(p) /\ NoPrior(p)
    /\ procs[p].i = 3
    /\ Len(procs[p].root.children) = 1
    /\ Len(procs[p].root.children[1].children) = 2

(***************************************************************************)
(* Properties of the knowledge of a persistent MCTS engine called again    *)
(* and again (specification SpecTree).                                     *)
(***************************************************************************)
RECURSIVE sumVisits(_, _)
sumVisits(entries, keys) ==
  IF keys = {} THEN 0
  ELSE CHOOSE v \in {entries[k].Visits + sumVisits(entries, keys \ {k}) : k \in {CHOOSE k \in keys : TRUE}} : TRUE

\* The visits the engine has stored for the key of the position.
StoredVisits(e, pos) == sumVisits(knowledgeEntries(e.knowledge, encodeStateKey(pos)), DOMAIN knowledgeEntries(e.knowledge, encodeStateKey(pos)))

\* Every entry stored for the root of the call p is the count of a child.
Seeded(p) ==
  \A k \in DOMAIN knowledgeEntries(procs[p].learned.knowledge, encodeStateKey(procs[p].given)) :
    \E c \in 1 .. Len(procs[p].root.children) :
      /\ FormatMove(procs[p].root.children[c].move) = k
      /\ procs[p].root.children[c].visits = knowledgeEntries(procs[p].learned.knowledge, encodeStateKey(procs[p].given))[k].Visits
      /\ procs[p].root.children[c].wins = knowledgeEntries(procs[p].learned.knowledge, encodeStateKey(procs[p].given))[k].Wins

\* A call of a persistent engine has returned a move.
LearnedCall == out.op = "nextmove" /\ ~out.err /\ Engine.storagePath # ""

\* C33: a NextMove call of a persistent MCTS engine used by one caller at
\* a time seeds the children of the root from the entries stored for the
\* key of the position, and the entries it writes back hold the visits
\* stored before plus one for each iteration.
C33_NoStoredVisitIsLost ==
  /\ \A p \in DOMAIN procs : (procs[p].pc = "rng" /\ procs[p].learned.storagePath # "") => Seeded(p)
  /\ LearnedCall => StoredVisits(Engine, before) = StoredVisits(engAtCall[state.Turn], before) + Engine.iterations

(***************************************************************************)
(* Properties of the knowledge after concurrent calls (specification       *)
(* SpecMCTS).  `engAtCall` is the engine before the calls.                 *)
(***************************************************************************)
\* Every call has chosen its move, written its entries back and saved,
\* all of them under one key, and no call wrote the hand maps of the
\* position they were given.
AllCallsDone ==
  /\ Engine.storagePath # ""
  /\ state = before
  /\ \A p \in DOMAIN procs : procs[p].pc = "done" /\ ~procs[p].err
  /\ Cardinality(DOMAIN Engine.knowledge) = 1

\* C34: after two NextMove calls on one persistent MCTS engine that
\* searched the same root position at the same time, the visits stored
\* for the position are those stored before plus the iterations of both
\* calls.
C34_BothCallsAreCounted ==
  AllCallsDone =>
    \A k \in DOMAIN Engine.knowledge :
      sumVisits(Engine.knowledge[k], DOMAIN Engine.knowledge[k])
        = sumVisits(knowledgeEntries(engAtCall[state.Turn].knowledge, k), DOMAIN knowledgeEntries(engAtCall[state.Turn].knowledge, k))
            + Len(procs) * Engine.iterations

(***************************************************************************)
(* Properties of a save that fails (specification SpecDisk).               *)
(***************************************************************************)
\* The save inside the last NextMove of the MCTS engine failed: the call
\* has returned and the engine is dirty.
ReturnedUnsaved == out.op = "nextmove" /\ out.engine = "mcts" /\ out.trail = <<>> /\ Engine.dirty

FailedThenSaved == Len(out.trail) >= 2 /\ SubSeq(out.trail, Len(out.trail) - 1, Len(out.trail)) = <<"savefailed", "saved">>

Malformed(kind, line) == IF kind = "mcts" THEN ~lineOK(line) ELSE parseRecord(emptyTD, line).err

\* C36: when the file holds a malformed record, loadKnowledge of each
\* persistent engine returns an error and the knowledge of the engine is
\* empty, the records before the malformed one included; when there is no
\* file, there is no error and the knowledge is empty.
C36_DamagedFileLoadsNothing ==
  LastDone("opened") =>
    /\ ~Engine.file.exists => (~out.loadErr /\ Loaded(Engine) = Loaded(NewEngine(Engine.kind, Engine.storagePath)))
    /\ (Engine.file.exists /\ \E i \in 1 .. Len(Engine.file.data.lines) : Malformed(Engine.kind, Engine.file.data.lines[i])) =>
         (out.loadErr /\ Loaded(Engine) = Loaded(NewEngine(Engine.kind, Engine.storagePath)))

(***************************************************************************)
(* Properties of the pieces in games from the initial setup                *)
(* (specification SpecPieces).                                             *)
(***************************************************************************)
PieceOn(s, c) == s.Board[c.Y][c.X]

\* The move that led from `before` to `state`.
Played == out.moves[1]

OnBoard(s, kind) == Cardinality({c \in Cells : PieceOn(s, c).Present /\ PieceOn(s, c).Kind = kind})

InHands(s, kind) == HandGet(s.Hands[Bottom], kind) + HandGet(s.Hands[Top], kind)

\* The hands of the mover after the move: one more of the kind captured.
HandsAfter(kind, captured) ==
  HandGet(state.Hands[out.player], kind) = HandGet(before.Hands[out.player], kind) + (IF captured.Present /\ captured.Kind = kind THEN 1 ELSE 0)

\* C37: in the positions the initial setup leads to by legal moves, only
\* Silvers and Pawns are promoted; a promoted piece that moves without
\* promoting stays promoted, as does every piece that did not move; a
\* captured piece adds one to the count of its kind in the hand of the
\* capturer; a dropped piece is not promoted and belongs to the player
\* who dropped it.
C37_PromotionIsKept ==
  /\ \A c \in Cells : (PieceOn(state, c).Present /\ PieceOn(state, c).Promoted) => PieceOn(state, c).Kind \in {Silver, Pawn}
  /\ out.op = "play" =>
       /\ \A c \in Cells \ ({Played.To} \cup (IF Played.HasDrop THEN {} ELSE {Played.From})) : PieceOn(state, c) = PieceOn(before, c)
       /\ Played.HasDrop =>
            /\ PieceOn(state, Played.To) = MkPiece(Played.Drop, out.player)
            /\ \A p \in Players, k \in PieceTypes :
                 HandGet(state.Hands[p], k) = HandGet(before.Hands[p], k) - (IF p = out.player /\ k = Played.Drop THEN 1 ELSE 0)
       /\ ~Played.HasDrop =>
            /\ PieceOn(state, Played.To).Kind = PieceOn(before, Played.From).Kind
            /\ PieceOn(state, Played.To).Owner = out.player
            /\ PieceOn(state, Played.To).Promoted = (PieceOn(before, Played.From).Promoted \/ Played.Promote)
            /\ \A k \in PieceTypes : HandsAfter(k, PieceOn(before, Played.To))
            /\ \A k \in PieceTypes : HandGet(state.Hands[Opponent(out.player)], k) = HandGet(before.Hands[Opponent(out.player)], k)

\* A promoted piece has moved without promoting, and has made a capture.
C37_Witness ==
  /\ out.op = "play" /\ ~Played.HasDrop /\ ~Played.Promote
  /\ PieceOn(before, Played.From).Promoted
  /\ PieceOn(before, Played.To).Present
  /\ PieceOn(state, Played.To).Promoted

\* NewGame 75-104: the pieces of each kind.
InitialTotal(kind) == OnBoard(NewGame, kind)

\* C38: in the positions the initial setup leads to by moves of
\* GenerateLegalMoves, the pieces of each kind on the board and the counts
\* of the kind in the two hands add up to the number in the initial
\* setup: 2 Kings, 4 Golds, 4 Silvers, 6 Pawns.
C38_PiecesConserved ==
  /\ <<InitialTotal(King), InitialTotal(Gold), InitialTotal(Silver), InitialTotal(Pawn)>> = <<2, 4, 4, 6>>
  /\ \A k \in PieceTypes : OnBoard(state, k) + InHands(state, k) = InitialTotal(k)

\* A piece was captured and a piece was dropped.
C38_Witness ==
  /\ ply = 2
  /\ out.op = "play" /\ Played.HasDrop
  /\ \E k \in PieceTypes : InHands(state, k) > 0

KingsOf(s, p) == {c \in Cells : PieceOn(s, c).Present /\ PieceOn(s, c).Kind = King /\ PieceOn(s, c).Owner = p}

\* C39: in the positions the initial setup leads to by legal moves, each
\* player has one King on the board, no King is captured or in a hand,
\* and the player who has moved is not in check.
C39_KingsStay ==
  /\ \A p \in Players : Cardinality(KingsOf(state, p)) = 1
  /\ \A p \in Players : HandGet(state.Hands[p], King) = 0
  /\ out.op = "play" =>
       /\ ~InCheck(state, out.player)
       /\ ~Played.HasDrop => ~(PieceOn(before, Played.To).Present /\ PieceOn(before, Played.To).Kind = King)
       /\ Played.HasDrop => Played.Drop # King

\* The mover was in check and has moved out of it.
C39_Witness ==
  /\ out.op = "play"
  /\ InCheck(before, out.player)
  /\ ~InCheck(state, out.player)

(***************************************************************************)
(* Properties of the server (specification SpecServer).                    *)
(***************************************************************************)
\* C40: every move the server applies to its game for an engine, in
\* respondWithEngines or in auto-play, is one of GenerateLegalMoves for
\* the game at the moment the move is applied, whatever move, reset,
\* engine and auto-play requests were served while the engine searched.
C40_AppliedMoveIsLegal ==
  out.op \in {"respond", "auto"} =>
    \E i \in 1 .. Len(GenerateLegalMoves(before, before.Turn).moves) : movesEqual(GenerateLegalMoves(before, before.Turn).moves[i], out.move)

====
